---- MODULE Spec2Model ----
(***************************************************************************)
(* LearnMate-AI: the mock Judge (services/judge0Service.ts), the mock-exam *)
(* session (components/TestBuddy.tsx) and the topic-quiz / coding          *)
(* workspace session (the TestBuddy component held in                      *)
(* components/CodeEditor.tsx, lines 105-584).                              *)
(*                                                                         *)
(* Strings are sequences of one-character strings, so that split, trim,    *)
(* Number and toString are computed and not assumed.  A source text is the *)
(* set of the fragments it contains; String.includes is computed over the  *)
(* fragments.                                                              *)
(***************************************************************************)
EXTENDS Integers, Sequences, FiniteSets, TLC

VARIABLES
    \* ---- the learnVaultContent prop both components are given
    learnVaultContent,
    \* ---- the Judge, called on its own (judge0Service.ts)
    judge,
    \* ---- mock exam (TestBuddy.tsx); timeouts counts the auto-submits of the session
    testState, config, questions, testAnswers, currentQIndex, timeLeft,
    testError, finalScore, timeTaken, timeouts,
    \* ---- TestBuddy of CodeEditor.tsx: shared state; pending is the awaited call
    view, isTopicProgramming, isLoading, error, pending,
    \* ---- its MCQ state; mcqTimeLeft is the Timer's countdown, quizCall the
    \* ---- onQuizComplete call made by the last step of the quiz (NoQuizCall
    \* ---- when it made none)
    mcqQuestions, mcqTopic, currentMcqIndex, selectedAnswer, userAnswers,
    isMcqTimerRunning, mcqTimeLeft, quizCall,
    \* ---- its coding state; codingTimeLeft is the Timer's countdown, task the
    \* ---- evaluation in flight (what its closure holds and the calls it made),
    \* ---- attemptCall the onCodingAttempt call made by the last step of the
    \* ---- workspace (NoAttempt when it made none)
    codingProblems, activeCodingProblemIndex, language, code, isExecuting,
    runResults, submissionResult, hint, isHintLoading, activeResultTab,
    isCodingTimerRunning, codingDifficulty, codingTimeLeft, task, attemptCall

judgeVars == <<judge>>
examVars == <<testState, config, questions, testAnswers, currentQIndex, timeLeft,
              testError, finalScore, timeTaken, timeouts>>
sharedVars == <<view, isTopicProgramming, isLoading, error, pending>>
mcqVars == <<mcqQuestions, mcqTopic, currentMcqIndex, selectedAnswer, userAnswers,
             isMcqTimerRunning, mcqTimeLeft>>
quizVars == <<mcqVars, quizCall>>
workspaceVars == <<codingProblems, activeCodingProblemIndex, language, code,
                   isExecuting, runResults, submissionResult, hint, isHintLoading,
                   activeResultTab, isCodingTimerRunning, codingDifficulty,
                   codingTimeLeft, task>>
codingVars == <<workspaceVars, attemptCall>>
buddyVars == <<sharedVars, quizVars, codingVars>>
vars == <<learnVaultContent, judgeVars, examVars, buddyVars>>

-----------------------------------------------------------------------------
(* Strings *)

\* JavaScript's undefined, for an optional string (a value no string equals).
Undefined == <<"undefined">>

\* JavaScript's null, for a string state that holds nothing.
Null == "null"

SP == " "

DigitChars == <<"0", "1", "2", "3", "4", "5", "6", "7", "8", "9">>

IsDigit(c) == \E d \in 1..Len(DigitChars) : DigitChars[d] = c

DigitValue(c) == (CHOOSE d \in 1..Len(DigitChars) : DigitChars[d] = c) - 1

\* A number of the mock: a natural, or NaN.
NaN == -1

RECURSIVE TrimStart(_)
TrimStart(s) == IF s # <<>> /\ Head(s) = SP THEN TrimStart(Tail(s)) ELSE s

RECURSIVE TrimEnd(_)
TrimEnd(s) ==
    IF s # <<>> /\ s[Len(s)] = SP THEN TrimEnd(SubSeq(s, 1, Len(s) - 1)) ELSE s

\* String.prototype.trim
Trim(s) == TrimEnd(TrimStart(s))

\* s.split(/\s+/).filter(Boolean): the maximal runs of non-space characters.
RECURSIVE SplitTokens(_, _)
SplitTokens(s, cur) ==
    IF s = <<>>
    THEN IF cur = <<>> THEN <<>> ELSE <<cur>>
    ELSE IF Head(s) = SP
         THEN IF cur = <<>>
              THEN SplitTokens(Tail(s), <<>>)
              ELSE <<cur>> \o SplitTokens(Tail(s), <<>>)
         ELSE SplitTokens(Tail(s), Append(cur, Head(s)))

\* Number(token) for a non-empty token: its decimal value, or NaN.
RECURSIVE DecimalValue(_, _)
DecimalValue(tok, acc) ==
    IF tok = <<>> THEN acc
    ELSE DecimalValue(Tail(tok), acc * 10 + DigitValue(Head(tok)))

Number(tok) ==
    IF \A i \in 1..Len(tok) : IsDigit(tok[i]) THEN DecimalValue(tok, 0) ELSE NaN

\* a + b on numbers; undefined (a missing array element) and NaN give NaN.
Plus(a, b) == IF a = NaN \/ b = NaN THEN NaN ELSE a + b

\* inputs[i] as an operand of +: undefined behaves as NaN.
At(inputs, i) == IF i <= Len(inputs) THEN inputs[i] ELSE NaN

RECURSIVE Sum(_)
Sum(inputs) == IF inputs = <<>> THEN 0 ELSE Plus(Head(inputs), Sum(Tail(inputs)))

\* Number.prototype.toString
RECURSIVE NumToString(_)
NumToString(n) ==
    IF n = NaN THEN <<"N", "a", "N">>
    ELSE IF n < 10 THEN <<DigitChars[n + 1]>>
    ELSE Append(NumToString(n \div 10), DigitChars[(n % 10) + 1])

\* JavaScript truthiness of an optional string.
Truthy(s) == s # Undefined /\ s # <<>>

-----------------------------------------------------------------------------
(* Source texts and the Judge *)

Fragments == {"syntax error", "throw new Error", "error", "while (true)",
              "infinite loop", "return a + b", "reduce"}

\* Whether the fragment f contains the needle as a substring (case-sensitive:
\* "throw new Error" does not contain "error", "syntax error" does).
FragmentContains(f, needle) ==
    f = needle \/ (f = "syntax error" /\ needle = "error")

\* sourceCode.includes(needle)
Includes(sourceCode, needle) == \E f \in sourceCode : FragmentContains(f, needle)

CompileCheck(sourceCode) == Includes(sourceCode, "syntax error")

RuntimeCheck(sourceCode) ==
    Includes(sourceCode, "throw new Error") \/ Includes(sourceCode, "error")

LoopCheck(sourceCode) ==
    Includes(sourceCode, "while (true)") \/ Includes(sourceCode, "infinite loop")

\* stdin?.split(/\s+/).filter(Boolean).map(Number) || [1, 2]
ParseInputs(stdin) ==
    IF stdin = Undefined THEN <<1, 2>>
    ELSE LET toks == SplitTokens(stdin, <<>>)
         IN  [i \in 1..Len(toks) |-> Number(toks[i])]

\* The mocked student output.
ActualOutput(sourceCode, stdin) ==
    LET inputs == ParseInputs(stdin)
    IN  IF Includes(sourceCode, "return a + b")
        THEN NumToString(Plus(At(inputs, 1), At(inputs, 2)))
        ELSE IF Includes(sourceCode, "reduce")
             THEN NumToString(Sum(inputs))
             ELSE <<"0">>

\* The comparison of the mock: lines 37-40.
CompareOutput(actualOutput, expectedOutput) ==
    IF Truthy(expectedOutput) /\ Trim(actualOutput) # Trim(expectedOutput)
    THEN [status |-> "Wrong Answer", stdout |-> actualOutput,
          expectedOutput |-> expectedOutput]
    ELSE [status |-> "Accepted", stdout |-> actualOutput]

MutJudgeRuntimeFirst(sourceCode, stdin, expectedOutput) ==
    IF RuntimeCheck(sourceCode)
    THEN [status |-> "Runtime Error",
          stderr |-> <<"Error: Something went wrong on line 5.">>]
    ELSE IF CompileCheck(sourceCode)
    THEN [status |-> "Compilation Error",
          compile_output |-> <<"SyntaxError: Invalid token on line 3">>]
    ELSE IF LoopCheck(sourceCode)
    THEN [status |-> "Time Limit Exceeded"]
    ELSE CompareOutput(ActualOutput(sourceCode, stdin), expectedOutput)

MutJudgeRemembers(sourceCode, stdin, expectedOutput) ==
    IF "first" \in DOMAIN judge /\ judge.first.status # "Pending"
    THEN [status |-> "Accepted"]
    ELSE IF CompileCheck(sourceCode)
    THEN [status |-> "Compilation Error",
          compile_output |-> <<"SyntaxError: Invalid token on line 3">>]
    ELSE IF RuntimeCheck(sourceCode)
    THEN [status |-> "Runtime Error",
          stderr |-> <<"Error: Something went wrong on line 5.">>]
    ELSE IF LoopCheck(sourceCode)
    THEN [status |-> "Time Limit Exceeded"]
    ELSE CompareOutput(ActualOutput(sourceCode, stdin), expectedOutput)

\* mockJudge0Response (time and memory, the synthetic telemetry, are left out).
mockJudge0Response(sourceCode, stdin, expectedOutput) ==
    IF CompileCheck(sourceCode)
    THEN [status |-> "Compilation Error",
          compile_output |-> <<"SyntaxError: Invalid token on line 3">>]
    ELSE IF RuntimeCheck(sourceCode)
    THEN [status |-> "Runtime Error",
          stderr |-> <<"Error: Something went wrong on line 5.">>]
    ELSE IF LoopCheck(sourceCode)
    THEN [status |-> "Time Limit Exceeded"]
    ELSE CompareOutput(ActualOutput(sourceCode, stdin), expectedOutput)

\* createSubmission: the delay aside, the mock's answer (language is only logged).
createSubmission(lang, sourceCode, stdin, expectedOutput) ==
    mockJudge0Response(sourceCode, stdin, expectedOutput)

Has(r, f) == f \in DOMAIN r

\* A message, a string taken whole.
Msg(text) == <<text>>

\* No call made yet.
NoResult == [status |-> "Pending"]

JudgeIdle == [source |-> {}, stdin |-> Undefined, expected |-> Undefined,
              result |-> NoResult]

-----------------------------------------------------------------------------
(* TestBuddy of components/CodeEditor.tsx: the state of the component *)

\* The Timer component (./Timer) is not among the sources: its countdown is
\* modelled from its contract.  A countdown of initialMinutes is McqTimerTicks
\* ticks (initialMinutes is 10 for the quiz).
McqTimerTicks == 2

Topic == "topic"

NoQuizCall == [score |-> Null]

EmptyAnswers == [i \in {} |-> Null]

InitQuizState ==
    /\ mcqQuestions = <<>>
    /\ mcqTopic = ""
    /\ currentMcqIndex = 0
    /\ selectedAnswer = Null
    /\ userAnswers = EmptyAnswers
    /\ isMcqTimerRunning = FALSE
    /\ mcqTimeLeft = 0
    /\ quizCall = NoQuizCall

InitSharedState ==
    /\ view = "initial"
    /\ isTopicProgramming = Null
    /\ isLoading = TRUE
    /\ error = Null
    /\ pending = "none"

\* The languages of the select in the model (the code also offers java and c).
Languages == {"javascript", "python"}

\* submissionResult when it is null, and runResults when it is null.
NoVerdict == [status |-> Null]
NoRunResults == <<NoVerdict>>

NoTask == [kind |-> "none"]

NoAttempt == [status |-> Null]

InitCodingState ==
    /\ codingProblems = <<>>
    /\ activeCodingProblemIndex = 0
    /\ language = "javascript"
    /\ code = {}
    /\ isExecuting = FALSE
    /\ runResults = NoRunResults
    /\ submissionResult = NoVerdict
    /\ hint = Null
    /\ isHintLoading = FALSE
    /\ activeResultTab = "run"
    /\ isCodingTimerRunning = FALSE
    /\ codingDifficulty = Null
    /\ codingTimeLeft = 0
    /\ task = NoTask
    /\ attemptCall = NoAttempt

InitBuddyState == InitSharedState /\ InitQuizState /\ InitCodingState

\* The component has returned past its two early returns (lines 366-379).
Rendered == ~isLoading /\ Trim(learnVaultContent) # <<>>

\* The mount effect (lines 193-202) for an empty vault.
MountEmptyVault ==
    /\ isLoading /\ pending = "none" /\ isTopicProgramming = Null
    /\ Trim(learnVaultContent) = <<>>
    /\ isLoading' = FALSE
    /\ UNCHANGED <<view, isTopicProgramming, error, pending>>
    /\ UNCHANGED <<learnVaultContent, judgeVars, examVars, quizVars, codingVars>>

\* The mount effect for a non-empty vault, and isProgrammingTopic resolving.
MountTopicResolved(isProgramming) ==
    /\ isLoading /\ pending = "none" /\ isTopicProgramming = Null
    /\ Trim(learnVaultContent) # <<>>
    /\ isTopicProgramming' = (IF isProgramming THEN "true" ELSE "false")
    /\ isLoading' = FALSE
    /\ UNCHANGED <<view, error, pending>>
    /\ UNCHANGED <<learnVaultContent, judgeVars, examVars, quizVars, codingVars>>

-----------------------------------------------------------------------------
(* The mock exam: components/TestBuddy.tsx *)

\* The longest question list the generator returns in the model.
MaxQuestions == 2

\* The time limits offered are 1..MaxTimeLimit units (the code offers 10, 20 and
\* 30 minutes), and a unit is TicksPerUnit ticks of the countdown (60 in the code).
MaxTimeLimit == 2
TicksPerUnit == 1

TimeLimits == 1..MaxTimeLimit

Options == <<"A", "B">>

OptionSet == {Options[i] : i \in 1..Len(Options)}

QuestionPool == [options : {Options}, correctAnswer : OptionSet]

\* The lists of at most n elements of S.
SeqsUpTo(S, n) == UNION {[1..k -> S] : k \in 0..n}

QuestionLists == SeqsUpTo(QuestionPool, MaxQuestions)

VaultContents == {<<>>, <<SP>>, <<"n">>}

InitExamState ==
    /\ testState = "config"
    /\ config = [timeLimit |-> 1]
    /\ questions = <<>>
    /\ testAnswers = <<>>
    /\ currentQIndex = 0
    /\ timeLeft = 0
    /\ testError = Null
    /\ finalScore = 0
    /\ timeTaken = 0
    /\ timeouts = 0

\* The scoring loop of handleSubmitTest, from index i (0-based) on.
RECURSIVE ScoreLoop(_, _, _, _)
ScoreLoop(qs, answers, i, score) ==
    IF i < Len(qs)
    THEN ScoreLoop(qs, answers, i + 1,
                   IF answers[i + 1] = qs[i + 1].correctAnswer
                   THEN score + 1 ELSE score)
    ELSE score

MutSubmitTestState(tl) ==
    /\ finalScore' = ScoreLoop(questions, testAnswers, 0, 0)
    /\ timeTaken' = config.timeLimit * TicksPerUnit - tl
    /\ testState' = "active"

\* handleSubmitTest, run in a render whose timeLeft is tl.
SubmitTestState(tl) ==
    /\ finalScore' = ScoreLoop(questions, testAnswers, 0, 0)
    /\ timeTaken' = config.timeLimit * TicksPerUnit - tl
    /\ testState' = "results"

\* The time-limit select of the config screen.
SetTimeLimit(t) ==
    /\ testState = "config"
    /\ Trim(learnVaultContent) # <<>>
    /\ t # config.timeLimit
    /\ config' = [config EXCEPT !.timeLimit = t]
    /\ UNCHANGED <<testState, questions, testAnswers, currentQIndex, timeLeft,
                   testError, finalScore, timeTaken, timeouts>>
    /\ UNCHANGED <<learnVaultContent, judgeVars, buddyVars>>

\* handleStartTest up to its await (the button is shown only for a non-empty vault).
handleStartTest ==
    /\ testState = "config"
    /\ Trim(learnVaultContent) # <<>>
    /\ testError' = Null
    /\ testState' = "loading"
    /\ UNCHANGED <<config, questions, testAnswers, currentQIndex, timeLeft,
                   finalScore, timeTaken, timeouts>>
    /\ UNCHANGED <<learnVaultContent, judgeVars, buddyVars>>

\* handleStartTest after generateMockTest resolved with generatedQuestions.
StartTestResolved(generatedQuestions) ==
    /\ testState = "loading"
    /\ IF Len(generatedQuestions) = 0
       THEN /\ testError' = "The AI could not generate a test from the provided content."
            /\ testState' = "config"
            /\ UNCHANGED <<questions, testAnswers, timeLeft, currentQIndex, timeouts>>
       ELSE /\ questions' = generatedQuestions
            /\ testAnswers' = [i \in 1..Len(generatedQuestions) |-> Null]
            /\ timeLeft' = config.timeLimit * TicksPerUnit
            /\ currentQIndex' = 0
            /\ testState' = "active"
            /\ timeouts' = 0
            /\ UNCHANGED testError
    /\ UNCHANGED <<config, finalScore, timeTaken>>
    /\ UNCHANGED <<learnVaultContent, judgeVars, buddyVars>>

MutStartTestRejectedStartsClock ==
    /\ testState = "loading"
    /\ testError' = "AI test generation failed"
    /\ testState' = "config"
    /\ timeLeft' = config.timeLimit * TicksPerUnit
    /\ UNCHANGED <<config, questions, testAnswers, currentQIndex,
                   finalScore, timeTaken, timeouts>>
    /\ UNCHANGED <<learnVaultContent, judgeVars, buddyVars>>

\* handleStartTest after generateMockTest rejected.
StartTestRejected ==
    /\ testState = "loading"
    /\ testError' = "AI test generation failed"
    /\ testState' = "config"
    /\ UNCHANGED <<config, questions, testAnswers, currentQIndex, timeLeft,
                   finalScore, timeTaken, timeouts>>
    /\ UNCHANGED <<learnVaultContent, judgeVars, buddyVars>>

MutHandleAnswerSelectRestartsClock(option) ==
    /\ testState = "active"
    /\ testAnswers' = [testAnswers EXCEPT ![currentQIndex + 1] = option]
    /\ timeLeft' = config.timeLimit * TicksPerUnit
    /\ UNCHANGED <<testState, config, questions, currentQIndex,
                   testError, finalScore, timeTaken, timeouts>>
    /\ UNCHANGED <<learnVaultContent, judgeVars, buddyVars>>

handleAnswerSelect(option) ==
    /\ testState = "active"
    /\ testAnswers' = [testAnswers EXCEPT ![currentQIndex + 1] = option]
    /\ UNCHANGED <<testState, config, questions, currentQIndex, timeLeft,
                   testError, finalScore, timeTaken, timeouts>>
    /\ UNCHANGED <<learnVaultContent, judgeVars, buddyVars>>

\* The question buttons, Previous and Next: setCurrentQIndex.
SelectQuestion(index) ==
    /\ testState = "active"
    /\ index # currentQIndex
    /\ currentQIndex' = index
    /\ UNCHANGED <<testState, config, questions, testAnswers, timeLeft,
                   testError, finalScore, timeTaken, timeouts>>
    /\ UNCHANGED <<learnVaultContent, judgeVars, buddyVars>>

\* The Submit Test button.
handleSubmitTest ==
    /\ testState = "active"
    /\ SubmitTestState(timeLeft)
    /\ UNCHANGED <<config, questions, testAnswers, currentQIndex, timeLeft,
                   testError, timeouts>>
    /\ UNCHANGED <<learnVaultContent, judgeVars, buddyVars>>

MutCountdownRuns == timeLeft > 0

MutCountdownStalls == testState = "active" /\ timeLeft > 1

\* The guard of the countdown effect (lines 33-39).
CountdownRuns == testState = "active" /\ timeLeft > 0

\* One firing of the interval, and the auto-submit effect of the render it causes
\* (lines 42-46).
Tick ==
    /\ CountdownRuns
    /\ timeLeft' = timeLeft - 1
    /\ IF testState = "active" /\ timeLeft' = 0
       THEN /\ SubmitTestState(timeLeft')
            /\ timeouts' = timeouts + 1
       ELSE UNCHANGED <<finalScore, timeTaken, testState, timeouts>>
    /\ UNCHANGED <<config, questions, testAnswers, currentQIndex, testError>>
    /\ UNCHANGED <<learnVaultContent, judgeVars, buddyVars>>

MutHandleResetRestarts ==
    /\ testState = "results"
    /\ testState' = "active"
    /\ testError' = Null
    /\ UNCHANGED <<config, questions, testAnswers, currentQIndex, timeLeft,
                   finalScore, timeTaken, timeouts>>
    /\ UNCHANGED <<learnVaultContent, judgeVars, buddyVars>>

handleReset ==
    /\ testState = "results"
    /\ testState' = "config"
    /\ questions' = <<>>
    /\ testAnswers' = <<>>
    /\ testError' = Null
    /\ UNCHANGED <<config, currentQIndex, timeLeft, finalScore, timeTaken, timeouts>>
    /\ UNCHANGED <<learnVaultContent, judgeVars, buddyVars>>

NextExam ==
    \/ \E t \in TimeLimits : SetTimeLimit(t)
    \/ handleStartTest
    \/ \E qs \in QuestionLists : StartTestResolved(qs)
    \/ StartTestRejected
    \/ \E o \in OptionSet : handleAnswerSelect(o)
    \/ \E i \in 0..(Len(questions) - 1) : SelectQuestion(i)
    \/ handleSubmitTest
    \/ Tick
    \/ handleReset

InitExam ==
    /\ learnVaultContent \in VaultContents
    /\ judge = JudgeIdle
    /\ InitExamState
    /\ InitBuddyState

SpecExam == InitExam /\ [][NextExam]_vars

\* The countdown keeps ticking while it runs.
SpecExamLive == SpecExam /\ WF_vars(Tick)

-----------------------------------------------------------------------------
(* The topic quiz *)

\* finalAnswers[index] of a Record<number, string>: undefined when absent.
AnswerAt(finalAnswers, index) ==
    IF index \in DOMAIN finalAnswers THEN finalAnswers[index] ELSE "undefined"

\* The forEach of finishMcq, from index i on.
RECURSIVE McqScoreLoop(_, _, _, _)
McqScoreLoop(qs, finalAnswers, i, score) ==
    IF i < Len(qs)
    THEN McqScoreLoop(qs, finalAnswers, i + 1,
                      IF AnswerAt(finalAnswers, i) = qs[i + 1].correctAnswer
                      THEN score + 1 ELSE score)
    ELSE score

MutFinishMcqCountsAnswered(finalAnswers) ==
    /\ isMcqTimerRunning' = FALSE
    /\ quizCall' = [score |-> Cardinality(DOMAIN finalAnswers),
                    totalQuestions |-> Len(mcqQuestions), topic |-> mcqTopic]
    /\ view' = "mcq_results"

\* finishMcq
finishMcq(finalAnswers) ==
    /\ isMcqTimerRunning' = FALSE
    /\ quizCall' = [score |-> McqScoreLoop(mcqQuestions, finalAnswers, 0, 0),
                    totalQuestions |-> Len(mcqQuestions), topic |-> mcqTopic]
    /\ view' = "mcq_results"

\* handleStartMcq up to its await.
handleStartMcq ==
    /\ Rendered /\ view = "initial"
    /\ isLoading' = TRUE
    /\ error' = Null
    /\ pending' = "quiz"
    /\ UNCHANGED <<view, isTopicProgramming>>
    /\ quizCall' = NoQuizCall
    /\ UNCHANGED <<learnVaultContent, judgeVars, examVars, mcqVars, codingVars>>

\* handleStartMcq after generateQuiz resolved; the Timer mounts with the view.
StartMcqResolved(generated) ==
    /\ pending = "quiz"
    /\ mcqQuestions' = generated
    /\ mcqTopic' = Topic
    /\ currentMcqIndex' = 0
    /\ userAnswers' = EmptyAnswers
    /\ selectedAnswer' = Null
    /\ view' = "mcq"
    /\ isMcqTimerRunning' = TRUE
    /\ mcqTimeLeft' = McqTimerTicks
    /\ isLoading' = FALSE
    /\ pending' = "none"
    /\ quizCall' = NoQuizCall
    /\ UNCHANGED <<isTopicProgramming, error>>
    /\ UNCHANGED <<learnVaultContent, judgeVars, examVars, codingVars>>

\* handleStartMcq after generateQuiz rejected.
StartMcqRejected ==
    /\ pending = "quiz"
    /\ error' = "AI quiz generation failed"
    /\ isLoading' = FALSE
    /\ pending' = "none"
    /\ UNCHANGED <<view, isTopicProgramming>>
    /\ quizCall' = NoQuizCall
    /\ UNCHANGED <<learnVaultContent, judgeVars, examVars, mcqVars, codingVars>>

\* renderMcq shows a question (and the Timer) only for a non-empty list.
McqShown == Rendered /\ view = "mcq" /\ Len(mcqQuestions) > 0

\* The radio buttons of the current question.
SelectAnswer(option) ==
    /\ McqShown
    /\ selectedAnswer # option
    /\ selectedAnswer' = option
    /\ quizCall' = NoQuizCall
    /\ UNCHANGED <<mcqQuestions, mcqTopic, currentMcqIndex, userAnswers,
                   isMcqTimerRunning, mcqTimeLeft>>
    /\ UNCHANGED <<learnVaultContent, judgeVars, examVars, sharedVars, codingVars>>

MutHandleNextQuestionFinishesStale ==
    /\ McqShown
    /\ selectedAnswer # Null
    /\ LET newAnswers ==
               [i \in DOMAIN userAnswers \cup {currentMcqIndex} |->
                   IF i = currentMcqIndex THEN selectedAnswer ELSE userAnswers[i]]
       IN  /\ userAnswers' = newAnswers
           /\ selectedAnswer' = Null
           /\ IF currentMcqIndex < Len(mcqQuestions) - 1
              THEN /\ currentMcqIndex' = currentMcqIndex + 1
                   /\ quizCall' = NoQuizCall
                   /\ UNCHANGED <<isMcqTimerRunning, view>>
              ELSE /\ finishMcq(userAnswers)
                   /\ UNCHANGED currentMcqIndex
    /\ UNCHANGED <<mcqQuestions, mcqTopic, mcqTimeLeft>>
    /\ UNCHANGED <<isTopicProgramming, isLoading, error, pending>>
    /\ UNCHANGED <<learnVaultContent, judgeVars, examVars, codingVars>>

\* handleNextQuestion (the button is disabled without a selected answer).
handleNextQuestion ==
    /\ McqShown
    /\ selectedAnswer # Null
    /\ LET newAnswers ==
               [i \in DOMAIN userAnswers \cup {currentMcqIndex} |->
                   IF i = currentMcqIndex THEN selectedAnswer ELSE userAnswers[i]]
       IN  /\ userAnswers' = newAnswers
           /\ selectedAnswer' = Null
           /\ IF currentMcqIndex < Len(mcqQuestions) - 1
              THEN /\ currentMcqIndex' = currentMcqIndex + 1
                   /\ quizCall' = NoQuizCall
                   /\ UNCHANGED <<isMcqTimerRunning, view>>
              ELSE /\ finishMcq(newAnswers)
                   /\ UNCHANGED currentMcqIndex
    /\ UNCHANGED <<mcqQuestions, mcqTopic, mcqTimeLeft>>
    /\ UNCHANGED <<isTopicProgramming, isLoading, error, pending>>
    /\ UNCHANGED <<learnVaultContent, judgeVars, examVars, codingVars>>

\* The Timer of renderMcq: one tick while isRunning, and onTimeout, which is
\* finishMcq(userAnswers), at the tick that reaches zero.
McqTick ==
    /\ McqShown
    /\ isMcqTimerRunning
    /\ mcqTimeLeft > 0
    /\ mcqTimeLeft' = mcqTimeLeft - 1
    /\ IF mcqTimeLeft' = 0
       THEN finishMcq(userAnswers)
       ELSE /\ quizCall' = NoQuizCall
            /\ UNCHANGED <<isMcqTimerRunning, view>>
    /\ UNCHANGED <<mcqQuestions, mcqTopic, currentMcqIndex, selectedAnswer, userAnswers>>
    /\ UNCHANGED <<isTopicProgramming, isLoading, error, pending>>
    /\ UNCHANGED <<learnVaultContent, judgeVars, examVars, codingVars>>

\* resetState, from the results screen.
resetState ==
    /\ Rendered /\ view = "mcq_results"
    /\ view' = "initial"
    /\ error' = Null
    /\ UNCHANGED <<isTopicProgramming, isLoading, pending>>
    /\ quizCall' = NoQuizCall
    /\ UNCHANGED <<learnVaultContent, judgeVars, examVars, mcqVars, codingVars>>

\* Object.values of a Record<number, string>: the values in ascending order of
\* their integer keys.
ObjectValues(record) ==
    [pos \in 1..Cardinality(DOMAIN record) |->
        record[CHOOSE k \in DOMAIN record :
                  Cardinality({j \in DOMAIN record : j < k}) = pos - 1]]

\* The score renderMcqResults displays: the values of userAnswers, filtered by
\* comparing the value at position index with the answer of question index.
renderMcqResults ==
    LET values == ObjectValues(userAnswers)
    IN  Cardinality({index \in 0..(Len(values) - 1) :
                        values[index + 1] = mcqQuestions[index + 1].correctAnswer})

NextQuiz ==
    \/ MountEmptyVault
    \/ \E b \in BOOLEAN : MountTopicResolved(b)
    \/ handleStartMcq
    \/ \E qs \in QuestionLists : StartMcqResolved(qs)
    \/ StartMcqRejected
    \/ \E o \in OptionSet : SelectAnswer(o)
    \/ handleNextQuestion
    \/ McqTick
    \/ resetState

InitQuiz ==
    /\ learnVaultContent \in VaultContents
    /\ judge = JudgeIdle
    /\ InitExamState
    /\ InitBuddyState

SpecQuiz == InitQuiz /\ [][NextQuiz]_vars

-----------------------------------------------------------------------------
(* The two MCQ tests.  App renders one component for its TestBuddy module, so
   a step of one of them is taken only while the other is as constructed. *)

NextTests ==
    \/ InitBuddyState /\ \E t \in TimeLimits : SetTimeLimit(t)
    \/ InitBuddyState /\ handleStartTest
    \/ InitBuddyState /\ \E qs \in QuestionLists : StartTestResolved(qs)
    \/ InitBuddyState /\ StartTestRejected
    \/ InitBuddyState /\ \E o \in OptionSet : handleAnswerSelect(o)
    \/ InitBuddyState /\ \E i \in 0..(Len(questions) - 1) : SelectQuestion(i)
    \/ InitBuddyState /\ handleSubmitTest
    \/ InitBuddyState /\ Tick
    \/ InitBuddyState /\ handleReset
    \/ InitExamState /\ MountEmptyVault
    \/ InitExamState /\ \E b \in BOOLEAN : MountTopicResolved(b)
    \/ InitExamState /\ handleStartMcq
    \/ InitExamState /\ \E qs \in QuestionLists : StartMcqResolved(qs)
    \/ InitExamState /\ StartMcqRejected
    \/ InitExamState /\ \E o \in OptionSet : SelectAnswer(o)
    \/ InitExamState /\ handleNextQuestion
    \/ InitExamState /\ McqTick
    \/ InitExamState /\ resetState

SpecTests == InitExam /\ [][NextTests]_vars

\* Both countdowns keep ticking while they run: setInterval and the Timer.
SpecTestsLive == SpecTests /\ WF_vars(Tick) /\ WF_vars(McqTick)

-----------------------------------------------------------------------------
(* The coding workspace *)

\* A countdown of initialMinutes (25 for the workspace) is CodingTimerTicks ticks.
CodingTimerTicks == 2

\* The longest lists of hidden test cases and of examples that the generator
\* returns in the model.
MaxCases == 3
MaxExamples == 2

\* The difficulty buttons in the model (the code offers Easy, Medium and Hard;
\* the choice is stored and handed to the generator).
Difficulties == {"Easy"}

CaseTwo == [input |-> <<"1", SP, "2">>, output |-> <<"3">>]
CaseThree == [input |-> <<"1", SP, "2", SP, "3">>, output |-> <<"6">>]

Cases == {CaseTwo, CaseThree}

\* The source texts in the model: the starter code, which throws until it is
\* written, and a solution that adds two numbers.
ThrowCode == {"throw new Error"}
AddTwoCode == {"return a + b"}

ReduceCode == {"reduce"}

CodePool == {ThrowCode, AddTwoCode, ReduceCode}

StarterCode == [l \in Languages |-> ThrowCode]

MkProblem(title, difficulty, examples, testCases) ==
    [title |-> title, difficulty |-> difficulty, examples |-> examples,
     testCases |-> testCases, starterCode |-> StarterCode]

CaseLists == SeqsUpTo(Cases, MaxCases)

ExampleLists == SeqsUpTo(Cases, MaxExamples)

\* The second problem of a two-problem list.
SecondProblem == MkProblem("P2", "Hard", <<CaseThree>>, <<CaseThree, CaseTwo>>)

\* What generateCodingProblems resolves with: no problem; one problem with any
\* hidden cases, or with any examples; or such a problem and a second one.
ProblemLists ==
    {<<>>}
    \cup {<<MkProblem("P1", "Easy", <<CaseTwo>>, tc)>> : tc \in CaseLists}
    \cup {<<MkProblem("P1", "Easy", ex, <<CaseTwo>>)>> : ex \in ExampleLists}
    \cup {<<MkProblem("P1", "Easy", <<CaseTwo, CaseThree>>, <<CaseTwo, CaseThree>>),
            SecondProblem>>}

\* codingProblems[activeCodingProblemIndex], undefined past the end.
HasActiveProblem == activeCodingProblemIndex < Len(codingProblems)

ActiveProblem == codingProblems[activeCodingProblemIndex + 1]

\* renderCodingWorkspace shows the workspace (and the Timer) for a non-empty list.
WorkspaceShown == Rendered /\ view = "coding_workspace" /\ Len(codingProblems) > 0

\* The effect of lines 205-213, run after a render in which the problem list ps,
\* the index or the language lang changed.
ResetEffect(ps, index, lang) ==
    IF Len(ps) > 0
    THEN /\ code' = ps[index + 1].starterCode[lang]
         /\ runResults' = NoRunResults
         /\ submissionResult' = NoVerdict
         /\ hint' = Null
    ELSE UNCHANGED <<code, runResults, submissionResult, hint>>

\* The Coding Challenge button of the initial view.
OpenCodingDifficulty ==
    /\ Rendered /\ view = "initial" /\ isTopicProgramming = "true"
    /\ view' = "coding_difficulty"
    /\ attemptCall' = NoAttempt
    /\ UNCHANGED <<isTopicProgramming, isLoading, error, pending>>
    /\ UNCHANGED <<learnVaultContent, judgeVars, examVars, quizVars, workspaceVars>>

\* Back to Test Selection.
BackToSelection ==
    /\ Rendered /\ view = "coding_difficulty"
    /\ view' = "initial"
    /\ attemptCall' = NoAttempt
    /\ UNCHANGED <<isTopicProgramming, isLoading, error, pending>>
    /\ UNCHANGED <<learnVaultContent, judgeVars, examVars, quizVars, workspaceVars>>

\* The Back button of the workspace; the Timer unmounts with the view.
BackToDifficulty ==
    /\ WorkspaceShown
    /\ view' = "coding_difficulty"
    /\ attemptCall' = NoAttempt
    /\ UNCHANGED <<isTopicProgramming, isLoading, error, pending>>
    /\ UNCHANGED <<learnVaultContent, judgeVars, examVars, quizVars, workspaceVars>>

\* handleFetchCodingProblems up to its await.
handleFetchCodingProblems(difficulty) ==
    /\ Rendered /\ view = "coding_difficulty"
    /\ isLoading' = TRUE
    /\ codingDifficulty' = difficulty
    /\ error' = Null
    /\ pending' = "problems"
    /\ attemptCall' = NoAttempt
    /\ UNCHANGED <<view, isTopicProgramming>>
    /\ UNCHANGED <<codingProblems, activeCodingProblemIndex, language, code,
                   isExecuting, runResults, submissionResult, hint, isHintLoading,
                   activeResultTab, isCodingTimerRunning, codingTimeLeft, task>>
    /\ UNCHANGED <<learnVaultContent, judgeVars, examVars, quizVars>>

\* handleFetchCodingProblems after generateCodingProblems resolved, and the
\* reset effect of the new list; the Timer mounts with the view.  In the model
\* the generator, asked again about the same vault, returns the same problems.
FetchResolved(fetchedProblems) ==
    /\ pending = "problems"
    /\ codingProblems \in {<<>>, fetchedProblems}
    /\ codingProblems' = fetchedProblems
    /\ activeCodingProblemIndex' = 0
    /\ view' = "coding_workspace"
    /\ isCodingTimerRunning' = TRUE
    /\ codingTimeLeft' = CodingTimerTicks
    /\ isLoading' = FALSE
    /\ pending' = "none"
    /\ ResetEffect(fetchedProblems, 0, language)
    /\ attemptCall' = NoAttempt
    /\ UNCHANGED <<isTopicProgramming, error>>
    /\ UNCHANGED <<language, isExecuting, isHintLoading, activeResultTab,
                   codingDifficulty, task>>
    /\ UNCHANGED <<learnVaultContent, judgeVars, examVars, quizVars>>

\* handleFetchCodingProblems after generateCodingProblems rejected.
FetchRejected ==
    /\ pending = "problems"
    /\ error' = "AI problem generation failed"
    /\ isLoading' = FALSE
    /\ pending' = "none"
    /\ attemptCall' = NoAttempt
    /\ UNCHANGED <<view, isTopicProgramming>>
    /\ UNCHANGED <<learnVaultContent, judgeVars, examVars, quizVars, workspaceVars>>

\* The problem buttons Q1, Q2, ...: setActiveCodingProblemIndex and the reset effect.
SelectProblem(index) ==
    /\ WorkspaceShown
    /\ index # activeCodingProblemIndex
    /\ activeCodingProblemIndex' = index
    /\ ResetEffect(codingProblems, index, language)
    /\ attemptCall' = NoAttempt
    /\ UNCHANGED <<codingProblems, language, isExecuting, isHintLoading,
                   activeResultTab, isCodingTimerRunning, codingDifficulty,
                   codingTimeLeft, task>>
    /\ UNCHANGED <<learnVaultContent, judgeVars, examVars, sharedVars, quizVars>>

\* The language select: setLanguage and the reset effect.
SelectLanguage(lang) ==
    /\ WorkspaceShown
    /\ lang # language
    /\ language' = lang
    /\ ResetEffect(codingProblems, activeCodingProblemIndex, lang)
    /\ attemptCall' = NoAttempt
    /\ UNCHANGED <<codingProblems, activeCodingProblemIndex, isExecuting,
                   isHintLoading, activeResultTab, isCodingTimerRunning,
                   codingDifficulty, codingTimeLeft, task>>
    /\ UNCHANGED <<learnVaultContent, judgeVars, examVars, sharedVars, quizVars>>

\* Typing in the editor: setCode.
EditCode(value) ==
    /\ WorkspaceShown
    /\ value # code
    /\ code' = value
    /\ attemptCall' = NoAttempt
    /\ UNCHANGED <<codingProblems, activeCodingProblemIndex, language, isExecuting,
                   runResults, submissionResult, hint, isHintLoading,
                   activeResultTab, isCodingTimerRunning, codingDifficulty,
                   codingTimeLeft, task>>
    /\ UNCHANGED <<learnVaultContent, judgeVars, examVars, sharedVars, quizVars>>

\* Field f of the object r, undefined when absent.
Field(r, f) == IF Has(r, f) THEN r[f] ELSE Undefined

\* a || b on optional strings.
OrElse(a, b) == IF Truthy(a) THEN a ELSE b

\* The TestCaseResult of example index (1-based here) for the Judge's res.
ExampleResult(problem, index, res) ==
    [input |-> problem.examples[index].input,
     expectedOutput |-> problem.examples[index].output,
     userOutput |-> OrElse(OrElse(Field(res, "stdout"), Field(res, "stderr")),
                           Msg("No output")),
     status |-> IF res.status = "Accepted" THEN "Passed" ELSE "Failed",
     error |-> OrElse(Field(res, "stderr"), Field(res, "compile_output"))]

MutRunResultsStopAtFailure(problem, results) ==
    LET n == Len(problem.examples)
        failing == {i \in 1..n : results[i].status # "Accepted"}
        last == IF failing = {} THEN n
                ELSE CHOOSE i \in failing : \A j \in failing : i <= j
    IN  [index \in 1..last |-> ExampleResult(problem, index, results[index])]

\* results.map(...) of handleRunCode, over the joined results of Promise.all.
RunResultsOf(problem, results) ==
    [index \in 1..Len(problem.examples) |->
        ExampleResult(problem, index, results[index])]

MutHandleRunCodeStopsTimer ==
    /\ WorkspaceShown
    /\ HasActiveProblem /\ ~isExecuting
    /\ activeResultTab' = "run"
    /\ submissionResult' = NoVerdict
    /\ hint' = Null
    /\ isCodingTimerRunning' = FALSE
    /\ LET problem == ActiveProblem
           n == Len(problem.examples)
       IN  IF n = 0
           THEN /\ runResults' = RunResultsOf(problem, <<>>)
                /\ isExecuting' = FALSE
                /\ task' = NoTask
           ELSE /\ task' = [kind |-> "run", problem |-> problem,
                            language |-> language, code |-> code,
                            unresolved |-> 1..n,
                            results |-> [i \in {} |-> NoResult]]
                /\ isExecuting' = TRUE
                /\ UNCHANGED runResults
    /\ attemptCall' = NoAttempt
    /\ UNCHANGED <<codingProblems, activeCodingProblemIndex, language, code,
                   isHintLoading, codingDifficulty, codingTimeLeft>>
    /\ UNCHANGED <<learnVaultContent, judgeVars, examVars, sharedVars, quizVars>>

\* handleRunCode up to its await: all the calls are issued; with no example
\* Promise.all resolves at once.
handleRunCode ==
    /\ WorkspaceShown
    /\ HasActiveProblem /\ ~isExecuting
    /\ activeResultTab' = "run"
    /\ submissionResult' = NoVerdict
    /\ hint' = Null
    /\ LET problem == ActiveProblem
           n == Len(problem.examples)
       IN  IF n = 0
           THEN /\ runResults' = RunResultsOf(problem, <<>>)
                /\ isExecuting' = FALSE
                /\ task' = NoTask
           ELSE /\ task' = [kind |-> "run", problem |-> problem,
                            language |-> language, code |-> code,
                            unresolved |-> 1..n,
                            results |-> [i \in {} |-> NoResult]]
                /\ isExecuting' = TRUE
                /\ UNCHANGED runResults
    /\ attemptCall' = NoAttempt
    /\ UNCHANGED <<codingProblems, activeCodingProblemIndex, language, code,
                   isHintLoading, isCodingTimerRunning, codingDifficulty,
                   codingTimeLeft>>
    /\ UNCHANGED <<learnVaultContent, judgeVars, examVars, sharedVars, quizVars>>

\* The call for example i resolves; after the last one Promise.all resolves and
\* handleRunCode goes on to its end.
RunCallResolved(i) ==
    /\ task.kind = "run"
    /\ i \in task.unresolved
    /\ LET example == task.problem.examples[i]
           res == createSubmission(task.language, task.code, example.input,
                                   example.output)
           results == [j \in DOMAIN task.results \cup {i} |->
                          IF j = i THEN res ELSE task.results[j]]
       IN  IF task.unresolved = {i}
           THEN /\ runResults' = RunResultsOf(task.problem, results)
                /\ isExecuting' = FALSE
                /\ task' = NoTask
           ELSE /\ task' = [task EXCEPT !.unresolved = @ \ {i},
                                        !.results = results]
                /\ UNCHANGED <<runResults, isExecuting>>
    /\ attemptCall' = NoAttempt
    /\ UNCHANGED <<codingProblems, activeCodingProblemIndex, language, code,
                   submissionResult, hint, isHintLoading, activeResultTab,
                   isCodingTimerRunning, codingDifficulty, codingTimeLeft>>
    /\ UNCHANGED <<learnVaultContent, judgeVars, examVars, sharedVars, quizVars>>

MutReportAttemptActiveProblem(t, status) ==
    attemptCall' = [problemTitle |-> ActiveProblem.title,
                    problemDifficulty |-> ActiveProblem.difficulty,
                    language |-> t.language, code |-> t.code, status |-> status]

\* onCodingAttempt of the submit t with the given status.
ReportAttempt(t, status) ==
    attemptCall' = [problemTitle |-> t.problem.title,
                    problemDifficulty |-> t.problem.difficulty,
                    language |-> t.language, code |-> t.code, status |-> status]

MutSubmitLoopSendsTwo(t, i) ==
    IF i < Len(t.problem.testCases)
    THEN /\ submissionResult' = [status |-> "Running"]
         /\ task' = [t EXCEPT !.awaiting = i,
                              !.sent = IF i + 1 < Len(t.problem.testCases)
                                       THEN @ \o <<i, i + 1>>
                                       ELSE Append(@, i)]
         /\ isExecuting' = TRUE
         /\ attemptCall' = NoAttempt
         /\ UNCHANGED isCodingTimerRunning
    ELSE /\ submissionResult' = [status |-> "Accepted"]
         /\ ReportAttempt(t, "Accepted")
         /\ isExecuting' = FALSE
         /\ isCodingTimerRunning' = FALSE
         /\ task' = NoTask

\* The for loop of handleSubmitCode at the hidden case of index i (0-based):
\* the call for it is issued, or the loop is over and the verdict is Accepted.
SubmitLoop(t, i) ==
    IF i < Len(t.problem.testCases)
    THEN /\ submissionResult' = [status |-> "Running"]
         /\ task' = [t EXCEPT !.awaiting = i, !.sent = Append(@, i)]
         /\ isExecuting' = TRUE
         /\ attemptCall' = NoAttempt
         /\ UNCHANGED isCodingTimerRunning
    ELSE /\ submissionResult' = [status |-> "Accepted"]
         /\ ReportAttempt(t, "Accepted")
         /\ isExecuting' = FALSE
         /\ isCodingTimerRunning' = FALSE
         /\ task' = NoTask

MutSubmitResultNoStop(t, result) ==
    SubmitLoop(t, t.awaiting + 1)

MutSubmitResultFirstInput(t, result) ==
    IF result.status # "Accepted"
    THEN /\ submissionResult' =
                ("failedInput" :> t.problem.testCases[1].input) @@ result
         /\ ReportAttempt(t, result.status)
         /\ isExecuting' = FALSE
         /\ task' = NoTask
         /\ UNCHANGED isCodingTimerRunning
    ELSE SubmitLoop(t, t.awaiting + 1)

MutSubmitResultNeverEnds(t, result) ==
    IF result.status # "Accepted"
    THEN /\ submissionResult' = [status |-> "Running"]
         /\ attemptCall' = NoAttempt
         /\ isExecuting' = TRUE
         /\ task' = t
         /\ UNCHANGED isCodingTimerRunning
    ELSE SubmitLoop(t, t.awaiting + 1)

\* The body of the loop after its await: the Judge's result for the case awaited.
SubmitResult(t, result) ==
    IF result.status # "Accepted"
    THEN /\ submissionResult' =
                ("failedInput" :> t.problem.testCases[t.awaiting + 1].input) @@ result
         /\ ReportAttempt(t, result.status)
         /\ isExecuting' = FALSE
         /\ task' = NoTask
         /\ UNCHANGED isCodingTimerRunning
    ELSE SubmitLoop(t, t.awaiting + 1)

\* handleSubmitCode up to its first await, for the click and for the Timer.
SubmitCode ==
    /\ activeResultTab' = "submit"
    /\ runResults' = NoRunResults
    /\ hint' = Null
    /\ SubmitLoop([kind |-> "submit", problem |-> ActiveProblem,
                   language |-> language, code |-> code, awaiting |-> 0,
                   sent |-> <<>>], 0)

MutHandleSubmitCodeUnguarded ==
    /\ WorkspaceShown
    /\ HasActiveProblem
    /\ SubmitCode
    /\ UNCHANGED <<codingProblems, activeCodingProblemIndex, language, code,
                   isHintLoading, codingDifficulty, codingTimeLeft>>
    /\ UNCHANGED <<learnVaultContent, judgeVars, examVars, sharedVars, quizVars>>

\* The Submit Code button.
handleSubmitCode ==
    /\ WorkspaceShown
    /\ HasActiveProblem /\ ~isExecuting
    /\ SubmitCode
    /\ UNCHANGED <<codingProblems, activeCodingProblemIndex, language, code,
                   isHintLoading, codingDifficulty, codingTimeLeft>>
    /\ UNCHANGED <<learnVaultContent, judgeVars, examVars, sharedVars, quizVars>>

\* The call for the awaited hidden case resolves.
SubmitCallResolved ==
    /\ task.kind = "submit"
    /\ LET testCase == task.problem.testCases[task.awaiting + 1]
       IN  SubmitResult(task, createSubmission(task.language, task.code,
                                               testCase.input, testCase.output))
    /\ UNCHANGED <<codingProblems, activeCodingProblemIndex, language, code,
                   runResults, hint, isHintLoading, activeResultTab,
                   codingDifficulty, codingTimeLeft>>
    /\ UNCHANGED <<learnVaultContent, judgeVars, examVars, sharedVars, quizVars>>

\* The Timer of the workspace: one tick while isRunning, and onTimeout, which is
\* handleSubmitCode, at the tick that reaches zero.
CodingTick ==
    /\ WorkspaceShown
    /\ isCodingTimerRunning
    /\ codingTimeLeft > 0
    /\ codingTimeLeft' = codingTimeLeft - 1
    /\ IF codingTimeLeft' = 0 /\ HasActiveProblem /\ ~isExecuting
       THEN SubmitCode
       ELSE /\ attemptCall' = NoAttempt
            /\ UNCHANGED <<activeResultTab, runResults, hint, submissionResult,
                           task, isExecuting, isCodingTimerRunning>>
    /\ UNCHANGED <<codingProblems, activeCodingProblemIndex, language, code,
                   isHintLoading, codingDifficulty>>
    /\ UNCHANGED <<learnVaultContent, judgeVars, examVars, sharedVars, quizVars>>

NextCoding ==
    \/ MountEmptyVault
    \/ \E b \in BOOLEAN : MountTopicResolved(b)
    \/ OpenCodingDifficulty
    \/ BackToSelection
    \/ BackToDifficulty
    \/ \E d \in Difficulties : handleFetchCodingProblems(d)
    \/ \E ps \in ProblemLists : FetchResolved(ps)
    \/ FetchRejected
    \/ \E i \in 0..(Len(codingProblems) - 1) : SelectProblem(i)
    \/ \E l \in Languages : SelectLanguage(l)
    \/ \E c \in CodePool : EditCode(c)
    \/ handleRunCode
    \/ \E i \in 1..MaxExamples : RunCallResolved(i)
    \/ handleSubmitCode
    \/ SubmitCallResolved
    \/ CodingTick

InitCoding ==
    /\ learnVaultContent \in VaultContents
    /\ judge = JudgeIdle
    /\ InitExamState
    /\ InitBuddyState

SpecCoding == InitCoding /\ [][NextCoding]_vars

-----------------------------------------------------------------------------
(* The three sessions: the mock exam, the topic quiz and the coding workspace.
   App renders one component, and one session is followed at a time: a step of
   one of them is taken only while the state of the others is as constructed. *)

NextSessions ==
    \/ InitBuddyState /\ \E t \in TimeLimits : SetTimeLimit(t)
    \/ InitBuddyState /\ handleStartTest
    \/ InitBuddyState /\ \E qs \in QuestionLists : StartTestResolved(qs)
    \/ InitBuddyState /\ StartTestRejected
    \/ InitBuddyState /\ \E o \in OptionSet : handleAnswerSelect(o)
    \/ InitBuddyState /\ \E i \in 0..(Len(questions) - 1) : SelectQuestion(i)
    \/ InitBuddyState /\ handleSubmitTest
    \/ InitBuddyState /\ Tick
    \/ InitBuddyState /\ handleReset
    \/ InitExamState /\ MountEmptyVault
    \/ InitExamState /\ \E b \in BOOLEAN : MountTopicResolved(b)
    \/ InitExamState /\ InitCodingState /\ handleStartMcq
    \/ InitExamState /\ InitCodingState
          /\ \E qs \in QuestionLists : StartMcqResolved(qs)
    \/ InitExamState /\ InitCodingState /\ StartMcqRejected
    \/ InitExamState /\ InitCodingState /\ \E o \in OptionSet : SelectAnswer(o)
    \/ InitExamState /\ InitCodingState /\ handleNextQuestion
    \/ InitExamState /\ InitCodingState /\ McqTick
    \/ InitExamState /\ InitCodingState /\ resetState
    \/ InitExamState /\ InitQuizState /\ OpenCodingDifficulty
    \/ InitExamState /\ InitQuizState /\ BackToSelection
    \/ InitExamState /\ InitQuizState /\ BackToDifficulty
    \/ InitExamState /\ InitQuizState
          /\ \E d \in Difficulties : handleFetchCodingProblems(d)
    \/ InitExamState /\ InitQuizState /\ \E ps \in ProblemLists : FetchResolved(ps)
    \/ InitExamState /\ InitQuizState /\ FetchRejected
    \/ InitExamState /\ InitQuizState
          /\ \E i \in 0..(Len(codingProblems) - 1) : SelectProblem(i)
    \/ InitExamState /\ InitQuizState /\ \E l \in Languages : SelectLanguage(l)
    \/ InitExamState /\ InitQuizState /\ \E c \in CodePool : EditCode(c)
    \/ InitExamState /\ InitQuizState /\ handleRunCode
    \/ InitExamState /\ InitQuizState
          /\ \E i \in 1..MaxExamples : RunCallResolved(i)
    \/ InitExamState /\ InitQuizState /\ handleSubmitCode
    \/ InitExamState /\ InitQuizState /\ SubmitCallResolved
    \/ InitExamState /\ InitQuizState /\ CodingTick

SpecSessions == InitCoding /\ [][NextSessions]_vars

-----------------------------------------------------------------------------
(* The timeout callbacks invoked outside an active session.  The Timer holds
   the onTimeout it was last rendered with; here that callback is invoked after
   the session it was started for has stopped being active. *)

\* The quiz is under way: a question and its running Timer are shown.
McqActive == McqShown /\ isMcqTimerRunning

\* The coding session is under way: the workspace and its running Timer are shown.
CodingActive == WorkspaceShown /\ isCodingTimerRunning

\* onTimeout of line 411, which is finishMcq(userAnswers), invoked once a quiz
\* has been started and is no longer under way.
McqOnTimeoutLate ==
    /\ Rendered /\ Len(mcqQuestions) > 0
    /\ ~McqActive
    /\ finishMcq(userAnswers)
    /\ UNCHANGED <<mcqQuestions, mcqTopic, currentMcqIndex, selectedAnswer,
                   userAnswers, mcqTimeLeft>>
    /\ UNCHANGED <<isTopicProgramming, isLoading, error, pending>>
    /\ UNCHANGED <<learnVaultContent, judgeVars, examVars, codingVars>>

\* onTimeout of line 489, which is handleSubmitCode, invoked once a coding
\* session has been started and is no longer under way.
CodingOnTimeoutLate ==
    /\ Rendered /\ Len(codingProblems) > 0
    /\ ~CodingActive
    /\ IF HasActiveProblem /\ ~isExecuting
       THEN SubmitCode
       ELSE /\ attemptCall' = NoAttempt
            /\ UNCHANGED <<activeResultTab, runResults, hint, submissionResult,
                           task, isExecuting, isCodingTimerRunning>>
    /\ UNCHANGED <<codingProblems, activeCodingProblemIndex, language, code,
                   isHintLoading, codingDifficulty, codingTimeLeft>>
    /\ UNCHANGED <<learnVaultContent, judgeVars, examVars, sharedVars, quizVars>>

\* One session is followed at a time: a step of the quiz is taken while the
\* coding state is as constructed, and a step of the workspace while the quiz
\* state is.
NextLate ==
    \/ MountEmptyVault
    \/ \E b \in BOOLEAN : MountTopicResolved(b)
    \/ InitCodingState /\ handleStartMcq
    \/ InitCodingState /\ \E qs \in QuestionLists : StartMcqResolved(qs)
    \/ InitCodingState /\ StartMcqRejected
    \/ InitCodingState /\ \E o \in OptionSet : SelectAnswer(o)
    \/ InitCodingState /\ handleNextQuestion
    \/ InitCodingState /\ McqTick
    \/ InitCodingState /\ resetState
    \/ InitCodingState /\ McqOnTimeoutLate
    \/ InitQuizState /\ OpenCodingDifficulty
    \/ InitQuizState /\ BackToSelection
    \/ InitQuizState /\ BackToDifficulty
    \/ InitQuizState /\ \E d \in Difficulties : handleFetchCodingProblems(d)
    \/ InitQuizState /\ \E ps \in ProblemLists : FetchResolved(ps)
    \/ InitQuizState /\ FetchRejected
    \/ InitQuizState /\ \E i \in 0..(Len(codingProblems) - 1) : SelectProblem(i)
    \/ InitQuizState /\ \E l \in Languages : SelectLanguage(l)
    \/ InitQuizState /\ \E c \in CodePool : EditCode(c)
    \/ InitQuizState /\ handleRunCode
    \/ InitQuizState /\ \E i \in 1..MaxExamples : RunCallResolved(i)
    \/ InitQuizState /\ handleSubmitCode
    \/ InitQuizState /\ SubmitCallResolved
    \/ InitQuizState /\ CodingTick
    \/ InitQuizState /\ CodingOnTimeoutLate

SpecLate == InitCoding /\ [][NextLate]_vars

-----------------------------------------------------------------------------
(* The workspace with a Judge call that rejects.  createSubmission is an async
   function: its promise rejects when mockJudge0Response throws, which it does
   at sourceCode.includes (line 8, before the try of line 19) when the source
   is not a string.  The code is not a string after setCode(problem.starterCode
   [language]) for a problem whose starterCode lacks the language; the problems
   are stored as the generator returned them. *)

\* The code state when it holds undefined.
UndefinedCode == {"undefined"}

\* sourceCode.includes throws a TypeError.
Throws(sourceCode) == sourceCode = UndefinedCode

\* A starterCode object with an entry for javascript only.
JsOnlyStarter ==
    [l \in Languages |-> IF l = "javascript" THEN ThrowCode ELSE UndefinedCode]

\* A list of one problem with such a starterCode.
NoStarterLists ==
    {<<[MkProblem("P3", "Easy", <<CaseTwo, CaseThree>>, <<CaseTwo, CaseThree>>)
           EXCEPT !.starterCode = JsOnlyStarter]>>}

\* The call for example i rejects: Promise.all rejects, the await of line 286
\* throws and handleRunCode ends there; nothing catches.
RunCallRejected(i) ==
    /\ task.kind = "run"
    /\ i \in task.unresolved
    /\ Throws(task.code)
    /\ task' = NoTask
    /\ attemptCall' = NoAttempt
    /\ UNCHANGED <<codingProblems, activeCodingProblemIndex, language, code,
                   isExecuting, runResults, submissionResult, hint, isHintLoading,
                   activeResultTab, isCodingTimerRunning, codingDifficulty,
                   codingTimeLeft>>
    /\ UNCHANGED <<learnVaultContent, judgeVars, examVars, sharedVars, quizVars>>

\* The call for the awaited hidden case rejects: the await of line 309 throws
\* and handleSubmitCode ends there; nothing catches.
SubmitCallRejected ==
    /\ task.kind = "submit"
    /\ Throws(task.code)
    /\ task' = NoTask
    /\ attemptCall' = NoAttempt
    /\ UNCHANGED <<codingProblems, activeCodingProblemIndex, language, code,
                   isExecuting, runResults, submissionResult, hint, isHintLoading,
                   activeResultTab, isCodingTimerRunning, codingDifficulty,
                   codingTimeLeft>>
    /\ UNCHANGED <<learnVaultContent, judgeVars, examVars, sharedVars, quizVars>>

NextFaulty ==
    \/ MountEmptyVault
    \/ \E b \in BOOLEAN : MountTopicResolved(b)
    \/ OpenCodingDifficulty
    \/ BackToSelection
    \/ BackToDifficulty
    \/ \E d \in Difficulties : handleFetchCodingProblems(d)
    \/ \E ps \in ProblemLists \cup NoStarterLists : FetchResolved(ps)
    \/ FetchRejected
    \/ \E i \in 0..(Len(codingProblems) - 1) : SelectProblem(i)
    \/ \E l \in Languages : SelectLanguage(l)
    \/ \E c \in CodePool : EditCode(c)
    \/ handleRunCode
    \/ task.kind = "run" /\ ~Throws(task.code)
          /\ \E i \in 1..MaxExamples : RunCallResolved(i)
    \/ \E i \in 1..MaxExamples : RunCallRejected(i)
    \/ handleSubmitCode
    \/ task.kind = "submit" /\ ~Throws(task.code) /\ SubmitCallResolved
    \/ SubmitCallRejected
    \/ CodingTick

SpecFaulty == InitCoding /\ [][NextFaulty]_vars

-----------------------------------------------------------------------------
(* The workspace with the hint button *)

\* What the model of generateCodeHint returns when the model answers.
AdvisorText == "Check the case of more than two numbers."

\* The string generateCodeHint returns from its catch.
AdvisorFallback == "Sorry, I couldn't generate a hint right now. Please try again."

\* generateCodeHint: the model's text, or the fallback when the call to the
\* model fails (answered is FALSE); the promise resolves in both cases.
generateCodeHint(answered) == IF answered THEN AdvisorText ELSE AdvisorFallback

\* The Get a Hint button is rendered on the Submission tab under a verdict that
\* is neither Accepted nor Running (lines 539-549).
HintButtonShown ==
    /\ WorkspaceShown
    /\ activeResultTab = "submit"
    /\ submissionResult # NoVerdict
    /\ submissionResult.status \notin {"Accepted", "Running"}

MutHandleGetHintClearsVerdict ==
    /\ HintButtonShown
    /\ HasActiveProblem /\ ~isHintLoading
    /\ submissionResult # NoVerdict /\ submissionResult.status # "Accepted"
    /\ isHintLoading' = TRUE
    /\ hint' = ""
    /\ submissionResult' = NoVerdict
    /\ attemptCall' = NoAttempt
    /\ UNCHANGED <<codingProblems, activeCodingProblemIndex, language, code,
                   isExecuting, runResults, activeResultTab,
                   isCodingTimerRunning, codingDifficulty, codingTimeLeft, task>>
    /\ UNCHANGED <<learnVaultContent, judgeVars, examVars, sharedVars, quizVars>>

\* handleGetHint up to its await.
handleGetHint ==
    /\ HintButtonShown
    /\ HasActiveProblem /\ ~isHintLoading
    /\ submissionResult # NoVerdict /\ submissionResult.status # "Accepted"
    /\ isHintLoading' = TRUE
    /\ hint' = ""
    /\ attemptCall' = NoAttempt
    /\ UNCHANGED <<codingProblems, activeCodingProblemIndex, language, code,
                   isExecuting, runResults, submissionResult, activeResultTab,
                   isCodingTimerRunning, codingDifficulty, codingTimeLeft, task>>
    /\ UNCHANGED <<learnVaultContent, judgeVars, examVars, sharedVars, quizVars>>

\* handleGetHint after generateCodeHint resolved, and its finally.
HintResolved(answered) ==
    /\ isHintLoading
    /\ hint' = generateCodeHint(answered)
    /\ isHintLoading' = FALSE
    /\ attemptCall' = NoAttempt
    /\ UNCHANGED <<codingProblems, activeCodingProblemIndex, language, code,
                   isExecuting, runResults, submissionResult, activeResultTab,
                   isCodingTimerRunning, codingDifficulty, codingTimeLeft, task>>
    /\ UNCHANGED <<learnVaultContent, judgeVars, examVars, sharedVars, quizVars>>

\* The problem lists of this part of the model: the two-problem list.
HintProblemLists == {ps \in ProblemLists : Len(ps) = 2}

NextHints ==
    \/ MountEmptyVault
    \/ \E b \in BOOLEAN : MountTopicResolved(b)
    \/ OpenCodingDifficulty
    \/ BackToSelection
    \/ BackToDifficulty
    \/ \E d \in Difficulties : handleFetchCodingProblems(d)
    \/ \E ps \in HintProblemLists : FetchResolved(ps)
    \/ FetchRejected
    \/ \E i \in 0..(Len(codingProblems) - 1) : SelectProblem(i)
    \/ \E l \in Languages : SelectLanguage(l)
    \/ \E c \in CodePool : EditCode(c)
    \/ handleRunCode
    \/ \E i \in 1..MaxExamples : RunCallResolved(i)
    \/ handleSubmitCode
    \/ SubmitCallResolved
    \/ CodingTick
    \/ handleGetHint
    \/ \E answered \in BOOLEAN : HintResolved(answered)

SpecHints == InitCoding /\ [][NextHints]_vars

\* The workspace once the problems are loaded, with one text to type: every
\* way of interleaving an evaluation with problem and language switches, edits,
\* hints and the timer.
NextEvaluations ==
    \/ \E b \in {TRUE} : MountTopicResolved(b)
    \/ OpenCodingDifficulty
    \/ \E d \in Difficulties : handleFetchCodingProblems(d)
    \/ \E ps \in HintProblemLists : FetchResolved(ps)
    \/ \E i \in 0..(Len(codingProblems) - 1) : SelectProblem(i)
    \/ \E l \in {"javascript", "python"} : SelectLanguage(l)
    \/ \E c \in {AddTwoCode} : EditCode(c)
    \/ handleRunCode
    \/ \E i \in 1..MaxExamples : RunCallResolved(i)
    \/ handleSubmitCode
    \/ SubmitCallResolved
    \/ CodingTick
    \/ handleGetHint
    \/ \E answered \in {TRUE} : HintResolved(answered)

SpecEvaluations == InitCoding /\ [][NextEvaluations]_vars

\* The Judge's answers to the texts and cases of the workspace, tabulated.
JudgeTable ==
    [c \in CodePool, k \in Cases |-> mockJudge0Response(c, k.input, k.output)]

\* RunCallResolved(i) with the Judge's answer read from the table: the same
\* step, whose enabling condition is evaluated without calling the Judge anew.
RunCallAnswered(i) ==
    /\ task.kind = "run"
    /\ i \in task.unresolved
    /\ LET res == JudgeTable[task.code, task.problem.examples[i]]
           results == [j \in DOMAIN task.results \cup {i} |->
                          IF j = i THEN res ELSE task.results[j]]
       IN  IF task.unresolved = {i}
           THEN /\ runResults' = RunResultsOf(task.problem, results)
                /\ isExecuting' = FALSE
                /\ task' = NoTask
           ELSE /\ task' = [task EXCEPT !.unresolved = @ \ {i},
                                        !.results = results]
                /\ UNCHANGED <<runResults, isExecuting>>
    /\ attemptCall' = NoAttempt
    /\ UNCHANGED <<codingProblems, activeCodingProblemIndex, language, code,
                   submissionResult, hint, isHintLoading, activeResultTab,
                   isCodingTimerRunning, codingDifficulty, codingTimeLeft>>
    /\ UNCHANGED <<learnVaultContent, judgeVars, examVars, sharedVars, quizVars>>

\* SubmitCallResolved with the Judge's answer read from the table.
SubmitCallAnswered ==
    /\ task.kind = "submit"
    /\ SubmitResult(task, JudgeTable[task.code,
                                     task.problem.testCases[task.awaiting + 1]])
    /\ UNCHANGED <<codingProblems, activeCodingProblemIndex, language, code,
                   runResults, hint, isHintLoading, activeResultTab,
                   codingDifficulty, codingTimeLeft>>
    /\ UNCHANGED <<learnVaultContent, judgeVars, examVars, sharedVars, quizVars>>

\* createSubmission resolves after its delay of 1.5 s: a call in flight is
\* answered.
SpecEvaluationsLive ==
    /\ SpecEvaluations
    /\ WF_vars(SubmitCallAnswered)
    /\ WF_vars(\E i \in 1..MaxExamples : RunCallAnswered(i))

-----------------------------------------------------------------------------
(* The Judge called on its own *)

JudgeSources == SUBSET Fragments

JudgeStdins == {Undefined, <<>>, <<"1", SP, "2">>, <<SP, "1", SP, SP, "2", SP>>,
                <<"1", SP, "2", SP, "3">>, <<"x", SP, "1">>, <<"1", "2">>, <<"3">>}

JudgeExpected == {Undefined, <<>>, <<SP>>, <<"3">>, <<SP, "3", SP>>, <<"6">>,
                  <<"0">>, <<"N", "a", "N">>, <<"1", "2">>}

InitJudge ==
    /\ learnVaultContent = <<>>
    /\ InitExamState
    /\ InitBuddyState
    /\ judge \in [source : JudgeSources, stdin : JudgeStdins,
                  expected : JudgeExpected, result : {NoResult}]

\* One call of the Judge on the chosen inputs.
Evaluate ==
    /\ judge.result = NoResult
    /\ judge' = [judge EXCEPT !.result =
                    createSubmission("javascript", judge.source, judge.stdin,
                                     judge.expected)]
    /\ UNCHANGED <<learnVaultContent, examVars, buddyVars>>

\* The caller turns to the next inputs.
NextCall ==
    /\ judge.result # NoResult
    /\ \E e \in JudgeExpected :
          judge' = [judge EXCEPT !.expected = e, !.result = NoResult]
    /\ UNCHANGED <<learnVaultContent, examVars, buddyVars>>

NextJudge == Evaluate \/ NextCall

SpecJudge == InitJudge /\ [][NextJudge]_vars

-----------------------------------------------------------------------------
(* The Judge called twice on the same inputs, other calls in between *)

\* The problem run twice.
RepeatProblem ==
    MkProblem("P1", "Easy", <<CaseTwo, CaseThree>>, <<CaseTwo, CaseThree>>)

\* What one run of handleRunCode stores for problem, language and code: the
\* mapped results of one createSubmission per example.
RunOutcome(problem, lang, sourceCode) ==
    RunResultsOf(problem,
        [i \in 1..Len(problem.examples) |->
            createSubmission(lang, sourceCode, problem.examples[i].input,
                             problem.examples[i].output)])

\* The caller keeps the first call's result (first), the result of the last
\* call on other inputs (other) and the result lists of its runs (runs).
InitRepeat ==
    /\ learnVaultContent = <<>>
    /\ InitExamState
    /\ InitBuddyState
    /\ judge \in [source : JudgeSources, stdin : JudgeStdins,
                  expected : JudgeExpected, result : {NoResult},
                  first : {NoResult}, other : {NoResult}, runs : {<<>>}]

\* The caller keeps the result and makes the same call again.
CallAgain ==
    /\ judge.result # NoResult /\ judge.first = NoResult
    /\ judge' = [judge EXCEPT !.first = judge.result, !.result = NoResult]
    /\ UNCHANGED <<learnVaultContent, examVars, buddyVars>>

\* A call on other inputs, at any moment.
OtherCall(lang, sourceCode, case) ==
    /\ judge' = [judge EXCEPT !.other =
                    createSubmission(lang, sourceCode, case.input, case.output)]
    /\ UNCHANGED <<learnVaultContent, examVars, buddyVars>>

\* A run of the problem on the chosen source, at most twice.
RunExamples ==
    /\ Len(judge.runs) < 2
    /\ judge' = [judge EXCEPT !.runs =
                    Append(@, RunOutcome(RepeatProblem, "javascript", judge.source))]
    /\ UNCHANGED <<learnVaultContent, examVars, buddyVars>>

NextRepeat ==
    \/ Evaluate
    \/ CallAgain
    \/ \E sourceCode \in {ThrowCode, AddTwoCode} : OtherCall("python", sourceCode, CaseTwo)
    \/ RunExamples

SpecRepeat == InitRepeat /\ [][NextRepeat]_vars

-----------------------------------------------------------------------------
(* Properties of the Judge, under SpecJudge *)

JudgeAnswered == judge.result # NoResult

NoCheckTrips(sourceCode) ==
    ~CompileCheck(sourceCode) /\ ~RuntimeCheck(sourceCode) /\ ~LoopCheck(sourceCode)

\* C4: the Judge classifies by strict precedence: a source that trips the
\* compilation check yields Compilation Error whatever else it trips; otherwise
\* one that trips the runtime-fault check yields Runtime Error; otherwise one
\* that trips the non-termination check yields Time Limit Exceeded; Accepted or
\* Wrong Answer is returned only when none of the three checks trips.
C4_StrictPrecedence ==
    JudgeAnswered =>
        LET src == judge.source
            status == judge.result.status
        IN  /\ CompileCheck(src) => status = "Compilation Error"
            /\ ~CompileCheck(src) /\ RuntimeCheck(src) => status = "Runtime Error"
            /\ ~CompileCheck(src) /\ ~RuntimeCheck(src) /\ LoopCheck(src)
                  => status = "Time Limit Exceeded"
            /\ status \in {"Accepted", "Wrong Answer"} <=> NoCheckTrips(src)

\* A source that trips all three checks has been classified.
C4_Witness ==
    /\ JudgeAnswered
    /\ CompileCheck(judge.source) /\ RuntimeCheck(judge.source)
    /\ LoopCheck(judge.source)
    /\ judge.result.status = "Compilation Error"

\* The expected output as text: an absent one is the empty text.
ExpectedText(expectedOutput) ==
    IF expectedOutput = Undefined THEN <<>> ELSE expectedOutput

\* C5: when none of the three checks applies, the Judge returns Accepted if and
\* only if the trimmed stdout equals the trimmed expected output, for every
\* expected output, an empty or absent one included; in every other case it
\* returns Wrong Answer with the expected output attached.
C5_AcceptedIffOutputsMatch ==
    JudgeAnswered /\ NoCheckTrips(judge.source) =>
        LET res == judge.result
            matches == Trim(res.stdout) = Trim(ExpectedText(judge.expected))
        IN  /\ res.status = "Accepted" <=> matches
            /\ ~matches => /\ res.status = "Wrong Answer"
                            /\ Has(res, "expectedOutput")
                            /\ res.expectedOutput = judge.expected

-----------------------------------------------------------------------------
(* Properties of the two MCQ tests *)

\* The number of questions of qs whose recorded answer is the correct one; the
\* answers are the array of the mock exam (null where none was given).
ExamCorrect(qs, answers) ==
    Cardinality({i \in 1..Len(qs) : answers[i] = qs[i].correctAnswer})

\* The same for the answers object of the topic quiz, keyed from 0.
McqCorrect(qs, answers) ==
    Cardinality({i \in 0..(Len(qs) - 1) :
                    i \in DOMAIN answers /\ answers[i] = qs[i + 1].correctAnswer})

\* C6: when an MCQ session of N questions is graded, by finishMcq in the topic
\* quiz or by handleSubmitTest in the mock exam, the score is the number of
\* indices whose recorded answer equals the question's correctAnswer; an index
\* without a recorded answer counts as incorrect, so 0 <= score <= N, also when
\* the timer forced the grading.
C6_ScoreCountsCorrectAnswers ==
    /\ testState = "results" =>
          /\ finalScore = ExamCorrect(questions, testAnswers)
          /\ finalScore \in 0..Len(questions)
    /\ view = "mcq_results" =>
          /\ quizCall.score = McqCorrect(mcqQuestions, userAnswers)
          /\ quizCall.score \in 0..Len(mcqQuestions)
          /\ quizCall.totalQuestions = Len(mcqQuestions)

\* The quiz Timer forced the grading of two questions of which only the first was
\* answered, and answered correctly.
C6_Witness ==
    /\ view = "mcq_results" /\ mcqTimeLeft = 0
    /\ Len(mcqQuestions) = 2 /\ DOMAIN userAnswers = {0}
    /\ quizCall.score = 1

\* The steps at which a countdown reaches zero.
ExamExpires == testState = "active" /\ timeLeft > 0 /\ timeLeft' = 0

McqExpires == McqShown /\ isMcqTimerRunning /\ mcqTimeLeft > 0 /\ mcqTimeLeft' = 0

\* C7: in an active MCQ session whose countdown keeps ticking, the session
\* eventually reaches the results whatever the user does; at the step where the
\* remaining time reaches zero the session moves to the results with the score
\* computed from the answers recorded at that instant, and never to an error.
C7_TimerCompletesSession ==
    /\ (testState = "active") ~> (testState = "results")
    /\ McqShown ~> (view = "mcq_results")
    /\ [][ExamExpires => /\ testState' = "results"
                          /\ finalScore' = ExamCorrect(questions, testAnswers)
                          /\ testError' = Null]_vars
    /\ [][McqExpires => /\ view' = "mcq_results"
                         /\ quizCall' # NoQuizCall
                         /\ quizCall'.score =
                                McqCorrect(mcqQuestions, userAnswers)
                         /\ error' = Null]_vars

\* The mock exam's countdown ran out on two questions, none answered.
C7_Witness ==
    /\ testState = "results" /\ timeouts = 1 /\ timeLeft = 0
    /\ Len(questions) = 2 /\ \A i \in 1..2 : testAnswers[i] = Null
    /\ finalScore = 0

\* C8: within one session of the mock exam the timeout is triggered exactly
\* once: at the step where the remaining time reaches zero while the session is
\* active; the countdown then stops, and no second timeout grading happens.
C8_TimeoutExactlyOnce ==
    /\ [](timeouts \in {0, 1})
    /\ [](timeouts = 1 => timeLeft = 0 /\ testState # "active")
    /\ [][ExamExpires <=> timeouts' = timeouts + 1]_vars
    /\ [][timeouts = 1 /\ testState' # "active" =>
              /\ timeouts' = 1 /\ timeLeft' = 0
              /\ finalScore' = finalScore /\ timeTaken' = timeTaken]_vars

\* The countdown of a session with the longest time limit ran out.
C8_Witness ==
    /\ testState = "results" /\ timeouts = 1 /\ timeLeft = 0
    /\ config.timeLimit = MaxTimeLimit
    /\ timeTaken = MaxTimeLimit * TicksPerUnit

\* C9: if a session is completed before expiry (Submit Test in the mock exam,
\* the last answer in the topic quiz), the countdown is stopped and the timeout
\* never fires afterwards for that session: the score, the time taken and the
\* completed state are not recomputed by the timer.
C9_NoTimeoutAfterCompletion ==
    /\ [][testState # "active" /\ testState' # "active" =>
              /\ timeLeft' = timeLeft /\ timeouts' = timeouts
              /\ finalScore' = finalScore /\ timeTaken' = timeTaken]_vars
    /\ [][testState = "results" => testState' \in {"results", "config"}]_vars
    /\ [](view = "mcq_results" => ~isMcqTimerRunning)
    /\ [][~(McqShown /\ isMcqTimerRunning) /\ view' # "mcq" =>
              quizCall' = NoQuizCall /\ mcqTimeLeft' = mcqTimeLeft]_vars
    /\ [][view = "mcq_results" => view' \in {"mcq_results", "initial"}]_vars

\* The mock exam was submitted by the user with time left.
C9_Witness ==
    /\ testState = "results" /\ timeouts = 0 /\ timeLeft > 0
    /\ timeTaken < config.timeLimit * TicksPerUnit

-----------------------------------------------------------------------------
(* Properties of the coding workspace, under SpecCoding *)

\* The Judge's outcome for hidden case k (0-based) of problem and the code.
CaseOutcome(problem, sourceCode, k) ==
    mockJudge0Response(sourceCode, problem.testCases[k + 1].input,
                       problem.testCases[k + 1].output)

\* The index of the first hidden case whose outcome is not Accepted, the number
\* of cases when there is none.
FirstFailure(problem, sourceCode) ==
    LET n == Len(problem.testCases)
        failing == {k \in 0..(n - 1) :
                       CaseOutcome(problem, sourceCode, k).status # "Accepted"}
    IN  IF failing = {} THEN n
        ELSE CHOOSE k \in failing : \A j \in failing : k <= j

SubmitInFlight == task.kind = "submit"

\* The step in which the submit in flight ends.
SubmitEnds == SubmitInFlight /\ task'.kind = "none"

\* A submit of a problem without hidden cases starts and ends in one step.
SubmitOfNoCase ==
    /\ task.kind = "none" /\ task'.kind = "none"
    /\ activeResultTab' = "submit" /\ attemptCall' # NoAttempt

\* C1: one submit performs exactly k+1 Judge calls when hidden case k (0-based)
\* is the first whose outcome is not Accepted, and exactly len(testCases) calls
\* when no case fails; no hidden case after the first failing one is ever sent.
C1_CallsUpToFirstFailure ==
    /\ [](SubmitInFlight =>
            /\ task.sent = [i \in 1..(task.awaiting + 1) |-> i - 1]
            /\ task.awaiting < Len(task.problem.testCases)
            /\ task.awaiting <= FirstFailure(task.problem, task.code))
    /\ [][SubmitEnds =>
            LET n == Len(task.problem.testCases)
                k == FirstFailure(task.problem, task.code)
            IN  Len(task.sent) = IF k < n THEN k + 1 ELSE n]_vars
    /\ [][SubmitOfNoCase => Len(ActiveProblem.testCases) = 0]_vars

\* A submit whose first two hidden cases passed has its third, failing, case
\* with the Judge.
C1_Witness ==
    /\ SubmitInFlight
    /\ Len(task.problem.testCases) = 3 /\ task.awaiting = 2
    /\ task.sent = <<0, 1, 2>>
    /\ FirstFailure(task.problem, task.code) = 2

\* C2: when a submit fails first at hidden case k, the verdict stored is the
\* non-Accepted outcome the Judge returned for case k, with failedInput equal to
\* testCases[k].input; when every hidden case is Accepted the stored verdict is
\* Accepted.
C2_VerdictOfFirstFailure ==
    /\ [][SubmitEnds =>
            LET n == Len(task.problem.testCases)
                k == FirstFailure(task.problem, task.code)
            IN  IF k < n
                THEN /\ submissionResult'.status # "Accepted"
                     /\ submissionResult'.failedInput =
                            task.problem.testCases[k + 1].input
                     /\ \A f \in DOMAIN CaseOutcome(task.problem, task.code, k) :
                            submissionResult'[f] =
                                CaseOutcome(task.problem, task.code, k)[f]
                ELSE submissionResult' = [status |-> "Accepted"]]_vars
    /\ [][SubmitOfNoCase => submissionResult' = [status |-> "Accepted"]]_vars
    /\ [][SubmitInFlight /\ ~SubmitEnds /\ submissionResult' # submissionResult =>
            submissionResult'.status \in {"Running", Null}]_vars

\* A submit failed at its second hidden case with a wrong answer, and the verdict
\* carries that case's input.
C2_Witness ==
    /\ ~isExecuting
    /\ submissionResult.status = "Wrong Answer"
    /\ submissionResult.failedInput = CaseThree.input
    /\ attemptCall.status = "Wrong Answer"
    /\ HasActiveProblem /\ Len(ActiveProblem.testCases) > 1
    /\ ActiveProblem.testCases[1] = CaseTwo /\ ActiveProblem.testCases[2] = CaseThree

RunInFlight == task.kind = "run"

\* The step in which the run in flight ends.
RunEnds == RunInFlight /\ task'.kind = "none"

\* A run of a problem without examples starts and ends in one step.
RunOfNoExample ==
    /\ task.kind = "none" /\ task'.kind = "none"
    /\ runResults' # runResults /\ runResults' # NoRunResults

\* The Judge's outcome for example i (1-based) of problem and the code.
ExampleOutcome(problem, sourceCode, i) ==
    mockJudge0Response(sourceCode, problem.examples[i].input,
                       problem.examples[i].output)

C10_StaleSubmitDiscarded ==
    [][SubmitInFlight /\ ~WorkspaceShown /\ task' # task =>
          /\ submissionResult' = submissionResult
          /\ attemptCall' = NoAttempt
          /\ isCodingTimerRunning' = isCodingTimerRunning
          /\ codingTimeLeft' = codingTimeLeft
          /\ view' = view]_vars

-----------------------------------------------------------------------------
(* Properties of the timeout callbacks, under SpecLate *)

\* C11: a timer callback that arrives when the session is no longer active is
\* a no-op: finishMcq invoked as the quiz Timer's callback, or handleSubmitCode
\* invoked as the workspace Timer's callback, outside an active session changes
\* no session state, starts no Judge call and reports nothing to the
\* ProgressRecorder.
C11_LateTimerCallbackIsNoOp ==
    /\ [][McqOnTimeoutLate =>
              /\ view' = view
              /\ mcqVars' = mcqVars
              /\ quizCall' = NoQuizCall]_vars
    /\ [][CodingOnTimeoutLate =>
              /\ view' = view
              /\ workspaceVars' = workspaceVars
              /\ attemptCall' = NoAttempt]_vars

-----------------------------------------------------------------------------
(* Properties of provisioning, under SpecSessions *)

\* C12: a provisioning call that returns an empty item set never puts the
\* session into the active state: after handleStartTest, handleStartMcq or
\* handleFetchCodingProblems completes, the session is active only if the loaded
\* item list is non-empty, and with an empty list the session is in the config
\* state with an error message and the timer is not started.
C12_EmptyProvisioningNeverActive ==
    /\ [](testState = "active" => Len(questions) > 0)
    /\ [](view = "mcq" => Len(mcqQuestions) > 0)
    /\ [](view = "coding_workspace" => Len(codingProblems) > 0)
    /\ [][testState = "loading" /\ testState' # "loading" /\ Len(questions') = 0 =>
              /\ testState' = "config"
              /\ testError' # Null
              /\ ~CountdownRuns']_vars
    /\ [][pending = "quiz" /\ pending' = "none" /\ Len(mcqQuestions') = 0 =>
              /\ view' = "initial"
              /\ error' # Null
              /\ ~isMcqTimerRunning']_vars
    /\ [][pending = "problems" /\ pending' = "none" /\ Len(codingProblems') = 0 =>
              /\ view' = "coding_difficulty"
              /\ error' # Null
              /\ ~isCodingTimerRunning']_vars

-----------------------------------------------------------------------------
(* Properties of the session status, under SpecTests *)

\* The status of the topic quiz: provisioning while generateQuiz is awaited,
\* active in the mcq view, completed in the results view, idle otherwise.
McqStatus ==
    IF pending = "quiz" THEN "loading"
    ELSE IF view = "mcq" THEN "active"
    ELSE IF view = "mcq_results" THEN "results"
    ELSE "config"

\* Idle -> Provisioning -> Active -> Completed -> Idle, and Provisioning -> Idle
\* on a failure.
StatusSteps ==
    {<<"config", "loading">>, <<"loading", "active">>, <<"loading", "config">>,
     <<"active", "results">>, <<"results", "config">>}

\* C13: the session status only moves along config -> loading -> active ->
\* results, with a failure reachable only from loading or active and results ->
\* config on reset: active is never entered except from loading, and from
\* results no action leads back to active or changes the final score without a
\* new config -> loading cycle that installs a fresh item list and an empty
\* answer set.
C13_StatusFollowsLifecycle ==
    /\ [][testState' # testState => <<testState, testState'>> \in StatusSteps]_vars
    /\ [][McqStatus' # McqStatus => <<McqStatus, McqStatus'>> \in StatusSteps]_vars
    /\ [][testError' # testError /\ testError' # Null =>
              testState \in {"loading", "active"}]_vars
    /\ [][error' # error /\ error' # Null =>
              McqStatus \in {"loading", "active"}]_vars
    /\ [][finalScore' # finalScore =>
              testState = "active" /\ testState' = "results"]_vars
    /\ [][quizCall' # NoQuizCall =>
              McqStatus = "active" /\ McqStatus' = "results"]_vars
    /\ [][McqStatus = "results" => UNCHANGED <<mcqQuestions, userAnswers>>]_vars
    /\ [][testState' = "active" /\ testState # "active" =>
              /\ Len(questions') > 0
              /\ testAnswers' = [i \in 1..Len(questions') |-> Null]
              /\ currentQIndex' = 0]_vars
    /\ [][McqStatus' = "active" /\ McqStatus # "active" =>
              /\ userAnswers' = EmptyAnswers
              /\ selectedAnswer' = Null
              /\ currentMcqIndex' = 0]_vars

\* A second mock exam is active, with no answer yet, after a first one was
\* completed with a positive score.
C13_Witness ==
    /\ testState = "active" /\ finalScore > 0
    /\ Len(questions) = MaxQuestions
    /\ \A i \in 1..Len(testAnswers) : testAnswers[i] = Null

-----------------------------------------------------------------------------
(* Properties of the evaluations of the workspace, under SpecCoding *)

\* The calls of the submit in flight whose outcome is not known yet: the
\* outcomes of the cases before the awaited one are known.
CallsInFlight == {j \in 1..Len(task.sent) : task.sent[j] >= task.awaiting}

\* C14: during one submit the hidden test cases are sent to the Judge strictly
\* in list order and one at a time: the call for case i+1 is issued only after
\* the outcome of case i is known, so at most one Judge call of that submit is
\* in flight in any state.
C14_OneCallAtATimeInOrder ==
    /\ [](SubmitInFlight =>
            /\ Cardinality(CallsInFlight) = 1
            /\ \A j \in 1..Len(task.sent) : task.sent[j] = j - 1)
    /\ [][SubmitInFlight /\ task'.kind = "submit" /\ task'.sent # task.sent =>
            /\ task'.sent = Append(task.sent, task.awaiting + 1)
            /\ task'.awaiting = task.awaiting + 1
            /\ CaseOutcome(task.problem, task.code, task.awaiting).status
                  = "Accepted"
            /\ task'.problem = task.problem /\ task'.code = task.code
            /\ task'.language = task.language]_vars
    /\ [][~SubmitInFlight /\ task'.kind = "submit" =>
            task'.sent = <<0>> /\ task'.awaiting = 0]_vars

\* The second hidden case of the first problem of two is with the Judge, the
\* first one having been accepted.
C14_Witness ==
    /\ SubmitInFlight
    /\ task.problem.title = "P1" /\ Len(codingProblems) = 2
    /\ task.code = ReduceCode
    /\ task.awaiting = 1 /\ task.sent = <<0, 1>>

-----------------------------------------------------------------------------
(* Properties of a rejecting Judge call, under SpecFaulty *)

\* A step of the run in flight at which one of its Judge calls fails.
RunCallFails == RunInFlight /\ Throws(task.code) /\ task' # task

\* C15: if the Judge call for one example fails (rejects) during a run, that
\* example is reported as a Failed result carrying the error text, the results
\* of all sibling examples are still reported in order, and the run finishes
\* (isExecuting returns to false).
C15_RejectedExampleIsFailedResult ==
    [][RunCallFails =>
          \/ task'.kind = "run"
          \/ /\ ~isExecuting'
             /\ runResults' # NoRunResults
             /\ Len(runResults') = Len(task.problem.examples)
             /\ \A i \in 1..Len(task.problem.examples) :
                   runResults'[i].input = task.problem.examples[i].input
             /\ \E i \in 1..Len(task.problem.examples) :
                   /\ runResults'[i].status = "Failed"
                   /\ Truthy(runResults'[i].error)]_vars

\* The step of the submit in flight at which its Judge call fails.
SubmitCallFails == SubmitInFlight /\ Throws(task.code) /\ task' # task

\* C16: a failure of the Judge backend during a submit (createSubmission throws
\* or rejects) is turned into a Runtime Error outcome with a diagnostic message
\* and is never propagated: the submit ends with a Runtime Error verdict and
\* the workspace is free to accept the next run or submit.
C16_RejectedSubmitIsRuntimeError ==
    [][SubmitCallFails =>
          /\ task'.kind = "none"
          /\ submissionResult'.status = "Runtime Error"
          /\ Truthy(Field(submissionResult', "stderr"))
          /\ ~isExecuting']_vars

-----------------------------------------------------------------------------
(* Properties of the verdict and of the session timer, under SpecCoding *)

\* The outcome o carries failedInput or expectedOutput.
CarriesFailureFields(o) == Has(o, "failedInput") \/ Has(o, "expectedOutput")

\* C17: in every reachable state, every outcome returned by the Judge or stored
\* as the session's verdict has failedInput and expectedOutput populated only
\* if its status is Wrong Answer; an outcome with any other status carries
\* neither field.
C17_FailureFieldsOnlyOnWrongAnswer ==
    /\ CarriesFailureFields(submissionResult) =>
          submissionResult.status = "Wrong Answer"
    /\ SubmitInFlight =>
          LET outcome == CaseOutcome(task.problem, task.code, task.awaiting)
          IN  CarriesFailureFields(outcome) => outcome.status = "Wrong Answer"

\* The step at which the countdown of the workspace reaches zero.
CodingExpires == CodingActive /\ codingTimeLeft > 0 /\ codingTimeLeft' = 0

\* C18: in the coding variant, when the session timer fires while the workspace
\* is active the session completes: it leaves the active state (at once, or
\* after the grading the timeout starts), and this happens also when a run or a
\* submit is in flight at that moment.
C18_CodingTimeoutCompletesSession ==
    /\ [][CodingExpires => ~CodingActive' \/ SubmitInFlight']_vars
    /\ [](WorkspaceShown /\ codingTimeLeft = 0 /\ task.kind = "none" =>
             ~CodingActive)

\* A step of a run: it starts, one of its calls resolves, or it starts and ends
\* at once for a problem without examples.
RunStep ==
    \/ task.kind = "none" /\ task'.kind = "run"
    \/ RunInFlight /\ task' # task
    \/ RunOfNoExample

\* C20: a run does not change session state: the view, the problem list, the
\* active problem index, the code, the timer-running flag and the attempts
\* reported to the ProgressRecorder are the same after the run as before it.
C20_RunLeavesSessionUnchanged ==
    [][RunStep =>
          /\ UNCHANGED <<view, isLoading, pending, error>>
          /\ UNCHANGED <<codingProblems, activeCodingProblemIndex, language, code>>
          /\ UNCHANGED <<isCodingTimerRunning, codingTimeLeft, codingDifficulty>>
          /\ attemptCall' = NoAttempt]_vars

\* A run of the summing code on the two examples of the first problem is over,
\* both passed, and the session is as it was: workspace shown, timer running.
C20_Witness ==
    /\ CodingActive /\ ~isExecuting /\ task.kind = "none"
    /\ code = ReduceCode /\ Len(codingProblems) = 2
    /\ Len(runResults) = 2
    /\ runResults[1].status = "Passed" /\ runResults[2].status = "Passed"

-----------------------------------------------------------------------------
(* Properties of a failing provisioner, under SpecSessions *)

\* The steps at which a provisioning attempt ends in a failure.
ExamProvisioningFails == testState = "loading" /\ testState' # "active"

QuizProvisioningFails == pending = "quiz" /\ pending' = "none" /\ error' # Null

ProblemProvisioningFails ==
    pending = "problems" /\ pending' = "none" /\ error' # Null

-----------------------------------------------------------------------------
(* Properties of the hints, under SpecHints *)

\* The steps of a hint request: its start and its end.
HintRequested == ~isHintLoading /\ isHintLoading'

HintReturned == isHintLoading /\ ~isHintLoading'

\* C21: a hint request never changes the verdict: whether the HintAdvisor
\* succeeds or fails, submissionResult is the same before and after each step
\* of handleGetHint, and after a HintAdvisor failure the hint shown is a
\* non-empty generic fallback string and the hint-loading flag is cleared.
C21_HintLeavesVerdictAlone ==
    /\ [][HintRequested \/ HintReturned =>
              submissionResult' = submissionResult]_vars
    /\ [][HintReturned => hint' \in {AdvisorText, AdvisorFallback}]_vars
    /\ [][HintResolved(FALSE) =>
              /\ hint' = AdvisorFallback /\ hint' \notin {Null, ""}
              /\ ~isHintLoading']_vars

\* After a Runtime Error verdict the HintAdvisor failed: the fallback is shown
\* under the verdict, which still carries the failing input.
C21_Witness ==
    /\ hint = AdvisorFallback /\ ~isHintLoading
    /\ submissionResult.status = "Runtime Error"
    /\ Has(submissionResult, "failedInput")
    /\ activeResultTab = "submit"

\* C22: the HintAdvisor is invoked at most once per submit attempt, and only
\* after that attempt ended with a terminal non-Accepted verdict: no hint is
\* requested when one was already requested since the last submit (the hint is
\* cleared by each submit), and none while the verdict is absent, Running or
\* Accepted.
C22_OneHintPerAttempt ==
    [][HintRequested =>
          /\ hint = Null
          /\ submissionResult # NoVerdict
          /\ submissionResult.status \notin {"Running", "Accepted", "Pending"}]_vars

-----------------------------------------------------------------------------
(* Properties of the admitted problems, under SpecCoding *)

\* The validation of generateCodingProblem: a problem without title or without
\* testCases is refused; an empty array is truthy and passes, and the examples
\* are not looked at.
PassesValidation(p) == Has(p, "title") /\ Has(p, "testCases")

\* C23: every coding problem admitted into an active session by the
\* provisioner's validation has non-empty testCases and non-empty examples, so
\* that an Accepted verdict is never issued by a submit that made zero Judge
\* calls.
C23_AdmittedProblemsHaveCases ==
    /\ [](WorkspaceShown =>
            \A i \in 1..Len(codingProblems) :
                PassesValidation(codingProblems[i]) =>
                    /\ Len(codingProblems[i].testCases) > 0
                    /\ Len(codingProblems[i].examples) > 0)
    /\ [][SubmitOfNoCase => submissionResult'.status # "Accepted"]_vars

-----------------------------------------------------------------------------
(* Properties of repeated calls, under SpecRepeat *)

-----------------------------------------------------------------------------
(* Properties of the evaluation in flight, under SpecHints *)

\* The evaluation in flight after the step is the one in flight before it,
\* further on: same kind, problem, language and code, and no call taken back.
SameEvaluation ==
    /\ task'.kind = task.kind
    /\ task'.problem = task.problem
    /\ task'.language = task.language /\ task'.code = task.code
    /\ IF task.kind = "submit"
       THEN /\ task'.awaiting >= task.awaiting
            /\ Len(task'.sent) >= Len(task.sent)
            /\ SubSeq(task'.sent, 1, Len(task.sent)) = task.sent
       ELSE task'.unresolved \subseteq task.unresolved

\* C25: at most one evaluation is in progress at any time: while isExecuting is
\* true no step starts another run or submit (the evaluation in flight goes on
\* or ends), and the timer's timeout callback arriving then issues no Judge
\* call and changes no state.
C25_OneEvaluationAtATime ==
    /\ [](isExecuting <=> task.kind # "none")
    /\ [][isExecuting => task'.kind = "none" \/ SameEvaluation]_vars
    /\ [][isExecuting /\ CodingExpires =>
              /\ UNCHANGED <<task, isExecuting, submissionResult, runResults>>
              /\ UNCHANGED <<hint, isHintLoading, activeResultTab>>
              /\ UNCHANGED <<codingProblems, activeCodingProblemIndex, language>>
              /\ UNCHANGED <<code, isCodingTimerRunning, view>>
              /\ attemptCall' = NoAttempt]_vars

\* The countdown is at zero, having expired during a submit that is still in
\* flight on its second hidden case.
C25_Witness ==
    /\ isExecuting /\ task.kind = "submit" /\ task.awaiting = 1
    /\ codingTimeLeft = 0 /\ isCodingTimerRunning
    /\ submissionResult.status = "Running"

\* The evaluation in flight was started on another problem or in another
\* language than the ones now selected.
EvaluationIsStale ==
    /\ task.kind # "none"
    /\ task.problem # ActiveProblem \/ task.language # language

\* C26: a verdict or run result shown belongs to the active problem: when the
\* user selected another problem or another language while a run or submit was
\* in flight, the step that ends that evaluation stores neither a verdict nor
\* run results.
C26_StaleResultIsNotStored ==
    [][EvaluationIsStale /\ (SubmitEnds \/ RunEnds) =>
          UNCHANGED <<submissionResult, runResults>>]_vars

-----------------------------------------------------------------------------
(* Termination of an evaluation, under SpecEvaluationsLive *)

TerminalVerdicts == {"Accepted", "Wrong Answer", "Runtime Error",
                     "Compilation Error", "Time Limit Exceeded"}

\* C27: every run or submit that starts eventually finishes, every Judge call
\* resolving: isExecuting eventually becomes false again, a submit ends with a
\* terminal verdict stored, and no verdict is left at Running or Pending once
\* nothing is executing, whatever problem switches, hint requests or timer
\* events come in between.
\* (The first conjunct: the steps the fairness is stated on are the steps in
\* which a Judge call resolves.)
C27_EvaluationTerminates ==
    /\ [][/\ \A i \in 1..MaxExamples :
                  (RunCallAnswered(i) <=> RunCallResolved(i))
          /\ (SubmitCallAnswered <=> SubmitCallResolved)]_vars
    /\ isExecuting ~> ~isExecuting
    /\ [][SubmitEnds => submissionResult'.status \in TerminalVerdicts]_vars
    /\ [](~isExecuting => submissionResult.status \notin {"Running", "Pending"})

\* A submit is on its second hidden case while a hint is loading, the other
\* problem was selected and the countdown is over.
C27_Witness ==
    /\ SubmitInFlight /\ task.awaiting = 1
    /\ isHintLoading
    /\ task.problem # ActiveProblem
    /\ codingTimeLeft = 0

-----------------------------------------------------------------------------
(* Properties of the attempts reported, under SpecHints *)

\* C28: every submit that runs to a verdict reports exactly one attempt, which
\* carries the title and the difficulty of the problem evaluated (with the
\* language and the code submitted) and a status equal to the verdict stored; a
\* run, a hint request and any step taken while a submit is still in flight
\* report none.
C28_OneAttemptPerVerdict ==
    /\ [][SubmitEnds =>
              /\ attemptCall' =
                    [problemTitle |-> task.problem.title,
                     problemDifficulty |-> task.problem.difficulty,
                     language |-> task.language, code |-> task.code,
                     status |-> submissionResult'.status]
              /\ submissionResult'.status \in TerminalVerdicts]_vars
    /\ [][attemptCall' # NoAttempt => SubmitEnds \/ SubmitOfNoCase]_vars
    /\ [][RunStep \/ HintRequested \/ HintReturned =>
              attemptCall' = NoAttempt]_vars
    /\ [][isExecuting /\ ~SubmitEnds => attemptCall' = NoAttempt]_vars

\* The attempt reported for P1 with a Wrong Answer while P2 is the active
\* problem.
C28_Witness ==
    /\ attemptCall # NoAttempt
    /\ attemptCall.problemTitle = "P1" /\ attemptCall.problemDifficulty = "Easy"
    /\ attemptCall.status = "Wrong Answer"
    /\ submissionResult.status = "Wrong Answer"
    /\ activeCodingProblemIndex = 1

-----------------------------------------------------------------------------
(* Properties of the exam's clock, under SpecExam *)

\* The seconds of the configured time limit (timeLimit * 60).
LimitSeconds == config.timeLimit * TicksPerUnit

\* C29 as stated: the remaining time satisfies 0 <= timeLeft <= timeLimit*60 in
\* every reachable state.
C29_TimeLeftWithinLimitAlways == [](0 <= timeLeft /\ timeLeft <= LimitSeconds)

\* C29, amended: the remaining time is never negative, and within
\* timeLimit*60 while the exam is active and on its results; it is set to
\* timeLimit*60 when the exam starts, decreases by exactly one per tick and only
\* while the exam is active, is never decremented at zero, and is unchanged by
\* answer selection and question navigation, so the time taken that is reported
\* lies between 0 and timeLimit*60.
C29_TimeLeftWithinLimit ==
    /\ [](timeLeft >= 0)
    /\ [](testState \in {"active", "results"} => timeLeft <= LimitSeconds)
    /\ [][timeLeft' # timeLeft =>
              \/ /\ testState = "active" /\ timeLeft > 0
                 /\ timeLeft' = timeLeft - 1
              \/ /\ testState = "loading" /\ testState' = "active"
                 /\ timeLeft' = LimitSeconds]_vars
    /\ [][testState = "active" /\ testState' = "active"
              /\ (testAnswers' # testAnswers \/ currentQIndex' # currentQIndex) =>
              timeLeft' = timeLeft]_vars
    /\ [][testState' = "results" /\ testState # "results" =>
              /\ timeTaken' = LimitSeconds - timeLeft'
              /\ timeTaken' \in 0..LimitSeconds]_vars
    /\ [](testState = "results" => timeTaken \in 0..LimitSeconds)

\* The exam of the longest time limit ended by its clock, the second question
\* shown and the first one answered: all the time was taken.
C29_Witness ==
    /\ testState = "results" /\ timeouts = 1
    /\ config.timeLimit = MaxTimeLimit
    /\ timeLeft = 0 /\ timeTaken = LimitSeconds
    /\ currentQIndex = 1 /\ testAnswers[1] # Null

-----------------------------------------------------------------------------
(* Properties of the quiz's two scores, under SpecTests *)

\* C30: in the topic quiz the recorded answers cover exactly the indices
\* 0..currentMcqIndex-1 while the quiz is active (an answer is recorded only by
\* Next, at the current index, and no recorded answer changes), and so the score
\* displayed by renderMcqResults equals the score finishMcq reports, when the
\* quiz completes by the last Next and when it completes by timeout.
C30_DisplayedScoreIsReported ==
    /\ [](McqActive => DOMAIN userAnswers = 0..(currentMcqIndex - 1))
    /\ [][McqActive /\ userAnswers' # userAnswers =>
              /\ DOMAIN userAnswers' = DOMAIN userAnswers \cup {currentMcqIndex}
              /\ \A i \in DOMAIN userAnswers : userAnswers'[i] = userAnswers[i]
              /\ selectedAnswer # Null /\ userAnswers'[currentMcqIndex] = selectedAnswer]_vars
    /\ [][quizCall' # NoQuizCall =>
              /\ view' = "mcq_results"
              /\ quizCall'.score = renderMcqResults']_vars
    /\ [](view = "mcq_results" =>
              /\ quizCall # NoQuizCall
              /\ quizCall.score = renderMcqResults)

\* The results of a quiz of two questions ended by the timeout after the first
\* answer, a correct one, was recorded and a second one selected.
C30_Witness ==
    /\ view = "mcq_results" /\ Len(mcqQuestions) = 2
    /\ mcqTimeLeft = 0
    /\ DOMAIN userAnswers = {0} /\ selectedAnswer # Null
    /\ quizCall.score = 1 /\ renderMcqResults = 1

====
